---- MODULE Spec2Model ----
(***************************************************************************)
(* A model of the interactive remote command session layer of              *)
(* router_tools/backend/router_manager.py: RouterConnection (channel,      *)
(* quiet-period reader, dialect detector, prompt/echo cleaning, command    *)
(* executor) and RouterManager (session registry).                         *)
(*                                                                         *)
(* Nine specifications share the module:                                   *)
(*   Spec        the registry and the executor's control flow              *)
(*   SpecRegistry the registry and the lifetime of its channels            *)
(*   SpecDetect  _detect_device_type as a function of the response text    *)
(*   SpecText    the text path of send_command (capture, resend, cleaning) *)
(*   SpecReader  _read_until_quiet against a timed byte source             *)
(*   SpecLoop    the request handlers of main_router.py on the event loop  *)
(*   SpecOps     get_router_info, backup_config, get_logs and              *)
(*               send_config_commands                                      *)
(*   SpecWaits   the polling loops of send_command and of detection and    *)
(*               the first recv of connect, with fairness                  *)
(*   SpecConsole the console bridge of main_router.py                      *)
(* Text is a sequence of one-character strings.  Time in SpecReader is     *)
(* counted in sub-ticks; one poll period (time.sleep(0.05)) is PollTicks   *)
(* sub-ticks.                                                              *)
(***************************************************************************)
EXTENDS Integers, Sequences, FiniteSets, TLC

VARIABLES
    connections,   \* RouterManager.connections: name -> session or NoSession
    nextSid,       \* number of RouterConnection objects constructed so far
    clock,         \* time.time(), in seconds
    result,        \* the value returned by the last registry operation
    hist,          \* bookkeeping about the last operation (not program state)
    orphans,       \* open transports no registered session holds
    det,           \* SpecDetect: response text, detected dialect
    txt,           \* SpecText: command, device script, captured text, output
    rd,            \* SpecReader: the reader, the channel buffer, the source
    loop,          \* SpecLoop: the requests the event loop serves
    ops,           \* SpecOps: one composite operation on one session
    wt,            \* SpecWaits: the polling loops of one blocking call
    con            \* SpecConsole: one console bridge and its session

mainVars == <<connections, nextSid, clock, result, hist, orphans>>
vars == <<connections, nextSid, clock, result, hist, orphans, det, txt, rd,
          loop, ops, wt, con>>

(***************************************************************************)
(* Text primitives (Python str operations used by the source)              *)
(***************************************************************************)

\* str.startswith / str.endswith / `in`
StartsWith(s, p) ==
    /\ Len(p) <= Len(s)
    /\ SubSeq(s, 1, Len(p)) = p

EndsWith(s, p) ==
    /\ Len(p) <= Len(s)
    /\ SubSeq(s, Len(s) - Len(p) + 1, Len(s)) = p

Contains(s, p) ==
    \E i \in 0..(Len(s) - Len(p)) : SubSeq(s, i + 1, i + Len(p)) = p

\* characters str.strip() removes
Whitespace == {" ", "\t", "\r", "\n"}

RECURSIVE LStrip(_)
LStrip(s) ==
    IF s # <<>> /\ Head(s) \in Whitespace THEN LStrip(Tail(s)) ELSE s

RECURSIVE RStrip(_)
RStrip(s) ==
    IF s # <<>> /\ s[Len(s)] \in Whitespace
    THEN RStrip(SubSeq(s, 1, Len(s) - 1))
    ELSE s

Strip(s) == LStrip(RStrip(s))

\* command_clean[1:]
DropFirst(s) == IF s = <<>> THEN <<>> ELSE Tail(s)

\* str.splitlines(): breaks at "\r\n", "\n" and "\r"; no trailing empty line
RECURSIVE SplitFrom(_, _, _)
SplitFrom(s, cur, acc) ==
    IF s = <<>>
    THEN IF cur = <<>> THEN acc ELSE Append(acc, cur)
    ELSE IF Head(s) = "\r" /\ Len(s) >= 2 /\ s[2] = "\n"
         THEN SplitFrom(Tail(Tail(s)), <<>>, Append(acc, cur))
         ELSE IF Head(s) \in {"\r", "\n"}
              THEN SplitFrom(Tail(s), <<>>, Append(acc, cur))
              ELSE SplitFrom(Tail(s), Append(cur, Head(s)), acc)

SplitLines(s) == SplitFrom(s, <<>>, <<>>)

\* sep.join(lines)
RECURSIVE Join(_, _)
Join(lines, sep) ==
    IF lines = <<>> THEN <<>>
    ELSE IF Len(lines) = 1 THEN lines[1]
    ELSE lines[1] \o sep \o Join(Tail(lines), sep)

TxtIdle == [pc |-> "idle"]
RdIdle == [pc |-> "idle"]
LoopIdle == [pc |-> "idle"]
OpsIdle == [pc |-> "idle"]
WtIdle == [pc |-> "idle"]
ConIdle == [pc |-> "idle"]

(***************************************************************************)
(* Dialect detection: RouterConnection._detect_device_type                 *)
(*                                                                         *)
(* The response to "show version" is a sequence of blank-separated words;  *)
(* a keyword occurs in it when its words occur contiguously.               *)
(***************************************************************************)

MaxRespLen == 3

\* the words a response is made of
Words == {"Cisco", "IOS", "XE", "Software", "C9300", "C2960", "MikroTik",
          "Huawei", "JUNOS", "R1#", "R1>", "]", ">"}

\* str.upper(), word by word
UpperWord(w) ==
    CASE w = "Cisco"    -> "CISCO"
      [] w = "Software" -> "SOFTWARE"
      [] w = "MikroTik" -> "MIKROTIK"
      [] w = "Huawei"   -> "HUAWEI"
      [] OTHER          -> w

Upper(text) == [i \in 1..Len(text) |-> UpperWord(text[i])]

\* `"#" in version_output`, `">" in version_output`
HasChar(text, c) ==
    \E i \in 1..Len(text) :
        \/ c = "#" /\ text[i] \in {"R1#"}
        \/ c = ">" /\ text[i] \in {"R1>", ">"}

ios_xe_keywords == {
    <<"IOS", "XE">>, <<"IOS-XE">>, <<"IOSXE">>, <<"CATALYST", "L3", "SWITCH">>,
    <<"CAT9K">>, <<"CAT3K">>, <<"C9300">>, <<"C9200">>, <<"C9400">>, <<"C9500">>,
    <<"C3850">>, <<"C3650">>, <<"CSR1000V">>, <<"ISR4">>, <<"ASR1000">>,
    <<"CISCO", "NEXUS">>, <<"NX-OS">> }

ios_keywords == {
    <<"CISCO", "IOS">>, <<"IOS", "SOFTWARE">>,
    <<"INTERNETWORK", "OPERATING", "SYSTEM">>,
    <<"C2960">>, <<"C3560">>, <<"C2950">>, <<"C1900">>, <<"C2900">>, <<"C800">>,
    <<"C1800">>, <<"CISCO", "ROUTER">>, <<"CISCO", "SWITCH">> }

\* any(keyword in version_upper for keyword in keywords)
AnyKeyword(upper, keywords) == \E k \in keywords : Contains(upper, k)

\* any(prompt in version_output for prompt in ["#", ">"])
HasPromptMark(text) == HasChar(text, "#") \/ HasChar(text, ">")

\* the device_type the keyword scan of lines 136-186 sets
DetectDeviceType(version_output) ==
    LET version_upper == Upper(version_output) IN
    IF HasPromptMark(version_output) /\ AnyKeyword(version_upper, ios_xe_keywords)
    THEN "cisco_ios_xe"
    ELSE IF HasPromptMark(version_output) /\ AnyKeyword(version_upper, ios_keywords)
    THEN "cisco_ios"
    ELSE IF /\ HasPromptMark(version_output)
            /\ Contains(version_upper, <<"CISCO">>)
            /\ \/ Contains(version_upper, <<"SOFTWARE">>)
               \/ Contains(version_upper, <<"VERSION">>)
    THEN "cisco_ios_xe"
    ELSE IF \/ Contains(version_upper, <<"MIKROTIK">>)
            \/ Contains(version_output, <<"]", ">">>)
    THEN "mikrotik"
    ELSE IF AnyKeyword(version_upper, {<<"HUAWEI">>, <<"VRP">>, <<"QUIDWAY">>})
    THEN "huawei"
    ELSE IF AnyKeyword(version_upper, {<<"JUNIPER">>, <<"JUNOS">>})
    THEN "juniper"
    ELSE IF HasPromptMark(version_output)
    THEN "cisco_ios_xe"
    ELSE "generic"

\* the except branch of _detect_device_type
\* the session's dialect when nothing has been detected
DetectErrorUnknown == "unknown"

DetectErrorDefault == "cisco_ios_xe"

RECURSIVE SeqsUpTo(_, _)
SeqsUpTo(S, n) ==
    IF n = 0 THEN {<<>>}
    ELSE LET shorter == SeqsUpTo(S, n - 1)
         IN shorter \cup {Append(s, x) : s \in shorter, x \in S}

Responses == SeqsUpTo(Words, MaxRespLen)

DetIdle == [pc |-> "idle", response |-> <<>>, device_type |-> "unknown"]

DetInit == det \in {[pc |-> "sent", response |-> r, device_type |-> "unknown"] :
                        r \in Responses}

\* the response was read without error: the keyword scan decides
DetectScan ==
    /\ det.pc = "sent"
    /\ det' = [det EXCEPT !.pc = "done",
                          !.device_type = DetectDeviceType(det.response)]
    /\ UNCHANGED <<mainVars, txt, rd, loop, ops, wt, con>>

\* shell.send or shell.recv raised: the except branch decides
DetectError ==
    /\ det.pc = "sent"
    /\ det' = [det EXCEPT !.pc = "failed", !.device_type = DetectErrorDefault]
    /\ UNCHANGED <<mainVars, txt, rd, loop, ops, wt, con>>

(***************************************************************************)
(* Sessions and the registry: RouterConnection, RouterManager              *)
(***************************************************************************)

MaxSessions == 2      \* RouterConnection objects constructed in one run
MaxElapsed == 31      \* seconds of wall-clock time one run covers
MaxFailures == 1      \* channel operations that raise during one command

Names == {"r1", "r2"}
\* the device each name is an address of
Hosts == {"xe", "tik"}
HostOf(name) == IF name = "r1" THEN "xe" ELSE "tik"
DeviceTypes == {"cisco_ios_xe", "cisco_ios", "mikrotik", "huawei", "juniper",
                "generic"}
\* the keys of RouterManager.command_templates
TemplateTypes == {"cisco_ios", "cisco_ios_xe", "generic", "mikrotik", "huawei"}
CommandTexts == {"show version"}

None == -1
keepalive_interval == 30

\* what each simulated device answers to "show version"
HostResponse(h) ==
    IF h = "xe" THEN <<"Cisco", "IOS", "XE", "Software", "R1#">>
    ELSE <<"MikroTik", "]", ">">>

\* every dialect the keyword scan can end with
DetectRange == {DetectDeviceType(r) : r \in Responses}

\* what _detect_device_type makes of each device's answer
DetectedType == [h \in Hosts |-> DetectDeviceType(HostResponse(h))]

\* RouterConnection.__init__
NewConnection(host) ==
    [host |-> host, client |-> "none", shell |-> FALSE,
     connected |-> FALSE, device_type |-> "unknown", last_activity |-> None]

\* how connect ends: "shell" is an SSHException after ssh_client.connect
\* has succeeded (invoke_shell, line 52)
ConnectOutcomes == {"ok", "auth", "ssh", "shell", "timeout", "other"}

\* every failed connect returns the same text
ConnectErrorFlat(outcome) == "Connection failed"

ConnectError(outcome) ==
    CASE outcome = "auth"    -> "Authentication failed - check username/password"
      [] outcome = "ssh"     -> "SSH connection error"
      [] outcome = "shell"   -> "SSH connection error"
      [] outcome = "timeout" -> "Connection timeout"
      [] OTHER               -> "Connection failed"

\* RouterConnection.connect: the session afterwards.  A connect that fails
\* before the transport is up leaves a fresh SSHClient without transport in
\* ssh_client; one that fails after it leaves the new transport open.
Connect(s, now, outcome, detectRaises) ==
    IF outcome = "ok"
    THEN [s EXCEPT !.client = "active",
                   !.shell = TRUE,
                   !.device_type = IF detectRaises THEN DetectErrorDefault
                                   ELSE DetectedType[s.host],
                   !.connected = TRUE,
                   !.last_activity = now]
    ELSE IF outcome = "shell"
    THEN [s EXCEPT !.client = "active"]
    ELSE [s EXCEPT !.client = "inactive"]

\* the dictionary an operation returns
Result(op, target, success, error, timestamp, device_type) ==
    [op |-> op, target |-> target, success |-> success, error |-> error,
     timestamp |-> timestamp, device_type |-> device_type]

ConnectResult(s, outcome) ==
    IF outcome = "ok"
    THEN Result("connect", s.host, TRUE, "", TRUE, s.device_type)
    ELSE Result("connect", IF outcome = "timeout" THEN s.host ELSE "", FALSE,
                ConnectError(outcome), TRUE, "")

\* a disconnect that clears the flag and closes nothing
DisconnectFlagOnly(s) == [s EXCEPT !.connected = FALSE]

\* RouterConnection.disconnect
Disconnect(s) ==
    [s EXCEPT !.client = IF @ = "none" THEN "none" ELSE "inactive",
              !.connected = FALSE]

\* RouterConnection._ensure_connected: the RuntimeError it raises, "" if none
EnsureConnectedError(s) ==
    IF ~s.connected \/ s.client = "none" THEN "SSH session not connected"
    ELSE IF s.client # "active" THEN "SSH transport inactive"
    ELSE IF ~s.shell THEN "SSH shell channel missing"
    ELSE ""

\* the channel operations of send_command that can raise
KeepaliveSteps == {"keepalive_send", "keepalive_read"}
IOSteps == KeepaliveSteps \cup {"flush", "send", "collect", "resend", "resend_collect"}

\* the steps after the keepalive, in program order
CommandSteps(retry) ==
    IF retry THEN <<"flush", "send", "collect", "resend", "resend_collect">>
    ELSE <<"flush", "send", "collect">>

\* index of the first step of `steps` that raises, 0 if none does
RECURSIVE FirstFailure(_, _, _)
FirstFailure(steps, fails, i) ==
    IF i > Len(steps) THEN 0
    ELSE IF steps[i] \in fails THEN i
    ELSE FirstFailure(steps, fails, i + 1)

\* a keepalive that is due as soon as the interval has passed
IsIdleAtThreshold(s, now) ==
    s.last_activity # None /\ now - s.last_activity >= keepalive_interval

\* now - self.last_activity > self.keepalive_interval (None is falsy)
IsIdle(s, now) ==
    s.last_activity # None /\ now - s.last_activity > keepalive_interval

\* a keepalive whose exceptions reach the outer handler of send_command
KeepalivePropagates(s, now, fails) ==
    LET idle == IsIdle(s, now)
        sendOk == idle /\ "keepalive_send" \notin fails
        failed == IF ~idle THEN {}
                  ELSE IF ~sendOk THEN {"keepalive_send"}
                  ELSE {"keepalive_read"} \cap fails
    IN [failed |-> failed,
        tx |-> IF sendOk THEN <<"\r">> ELSE <<>>,
        raised |-> failed # {}]

\* the idle keepalive of lines 260-267.  `failed` are the steps that raised,
\* `tx` what was transmitted; `raised` tells whether an exception leaves the
\* inner try (never: `except Exception: pass`).
Keepalive(s, now, fails) ==
    LET idle == IsIdle(s, now)
        sendOk == idle /\ "keepalive_send" \notin fails
    IN [failed |-> IF ~idle THEN {}
                   ELSE IF ~sendOk THEN {"keepalive_send"}
                   ELSE {"keepalive_read"} \cap fails,
        tx |-> IF sendOk THEN <<"\r">> ELSE <<>>,
        raised |-> FALSE]

\* a command that leaves no trace of when it ran
TouchNever(s, now) == s

\* self.last_activity = time.time() of line 300
Touch(s, now) == [s EXCEPT !.last_activity = now]

\* RouterConnection.send_command.  `fails` are the channel operations that
\* raise if reached, `retry` whether the echo-repair condition of line 279
\* holds (the text itself is modelled in SpecText).  Returns the
\* session afterwards, the returned dictionary, whether an exception left
\* the method, and the bookkeeping (steps that raised, transmissions).
SendCommand(s, now, command, fails, retry) ==
    IF ~s.connected \/ ~s.shell
    THEN [session |-> s, raised |-> FALSE, failed |-> {}, tx |-> <<>>,
          result |-> Result("send_command", command, FALSE,
                            "Not connected to router", FALSE, "")]
    ELSE IF EnsureConnectedError(s) # ""
    THEN [session |-> s, raised |-> FALSE, failed |-> {"ensure_connected"},
          tx |-> <<>>,
          result |-> Result("send_command", command, FALSE,
                            EnsureConnectedError(s), TRUE, "")]
    ELSE LET ka == Keepalive(s, now, fails)
             steps == CommandSteps(retry)
             bad == IF ka.raised THEN 0 ELSE FirstFailure(steps, fails, 1)
             sends == {i \in 1..Len(steps) :
                          /\ ~ka.raised
                          /\ steps[i] \in {"send", "resend"}
                          /\ (bad = 0 \/ i < bad)}
             tx == ka.tx \o [i \in 1..Cardinality(sends) |-> command]
         IN IF ka.raised \/ bad # 0
            THEN [session |-> s, raised |-> FALSE,
                  failed |-> ka.failed \cup (IF bad # 0 THEN {steps[bad]} ELSE {}),
                  tx |-> tx,
                  result |-> Result("send_command", command, FALSE,
                                    IF bad # 0 THEN steps[bad] ELSE "keepalive",
                                    TRUE, "")]
            ELSE [session |-> Touch(s, now),
                  raised |-> FALSE, failed |-> ka.failed, tx |-> tx,
                  result |-> Result("send_command", command, TRUE, "", TRUE,
                                    s.device_type)]

(***************************************************************************)
(* Registry operations                                                     *)
(***************************************************************************)

NoResult == Result("none", "", TRUE, "", FALSE, "")

\* what the last operation was called on and what it did: the name, whether
\* it was registered, its transport's state and its connected flag at the
\* call, how detection ended, the override applied, and send_command's
\* bookkeeping, with the last_activity send_command found (`since`) and
\* the session remove_router took out of the registry (`removed`)
NoHist == [op |-> "none", name |-> "", known |-> FALSE, alive |-> FALSE,
           flagged |-> FALSE, detect |-> "", override |-> "",
           ran |-> FALSE, raised |-> FALSE, precheck |-> TRUE, failed |-> {},
           tx |-> <<>>, reconnects |-> 0, since |-> None,
           removed |-> NewConnection("")]

Hist(op, name) ==
    LET known == name \in DOMAIN connections IN
    [NoHist EXCEPT !.op = op, !.name = name, !.known = known,
                   !.alive = known /\ connections[name].client = "active",
                   !.flagged = known /\ connections[name].connected]

Put(d, k, v) == [x \in DOMAIN d \cup {k} |-> IF x = k THEN v ELSE d[x]]
Del(d, k) == [x \in DOMAIN d \ {k} |-> d[x]]

MainInit ==
    /\ connections = <<>>
    /\ nextSid = 1
    /\ clock = 1
    /\ result = NoResult
    /\ hist = NoHist
    /\ orphans = 0

\* how _detect_device_type ended inside a connect
DetectEnd(outcome, detectRaises) ==
    IF outcome # "ok" THEN "" ELSE IF detectRaises THEN "raised" ELSE "scan"

\* the count of open connections no session holds, after the handle of an
\* open SSHClient was dropped without close(): the connection stays open
\* unless the library closes it when the object is finalised
DropOpen(n) == {n, n + 1}

\* RouterManager.add_router
AddRouter(name, device_type, outcome, detectRaises) ==
    /\ nextSid <= MaxSessions
    /\ outcome = "ok" \/ ~detectRaises
    /\ nextSid' = nextSid + 1
    /\ LET router == Connect(NewConnection(HostOf(name)), clock, outcome,
                             detectRaises)
           override == device_type # "" /\ device_type \in TemplateTypes
           final == IF override
                    THEN [router EXCEPT !.device_type = device_type]
                    ELSE router
       IN IF outcome = "ok"
          THEN /\ connections' = Put(connections, name, final)
               /\ orphans' \in IF /\ name \in DOMAIN connections
                                   /\ connections[name].client = "active"
                                THEN DropOpen(orphans) ELSE {orphans}
               /\ result' = Result("add_router", name, TRUE, "", TRUE,
                                   final.device_type)
               /\ hist' = [NoHist EXCEPT
                              !.op = "add_router", !.name = name,
                              !.detect = DetectEnd(outcome, detectRaises),
                              !.override = IF override THEN device_type ELSE ""]
          ELSE /\ connections' = connections
               /\ orphans' \in IF router.client = "active"
                                THEN DropOpen(orphans) ELSE {orphans}
               /\ result' = ConnectResult(router, outcome)
               /\ hist' = NoHist
    /\ UNCHANGED <<clock, det, txt, rd, loop, ops, wt, con>>

\* the dictionary returned for a name that is not in self.connections
NotFoundAsSuccess(op, name) == Result(op, name, TRUE, "", FALSE, "")

\* the dictionary returned for a name that is not in self.connections
NotFoundResult(op, name) == Result(op, name, FALSE, "not found", FALSE, "")

\* RouterManager.remove_router
RemoveRouter(name) ==
    /\ IF name \in DOMAIN connections
       THEN /\ connections' = Del(connections, name)
            /\ result' = Result("remove_router", name, TRUE, "", FALSE, "")
            /\ hist' = [Hist("remove_router", name) EXCEPT
                           !.removed = Disconnect(connections[name])]
       ELSE /\ connections' = connections
            /\ result' = NotFoundResult("remove_router", name)
            /\ hist' = Hist("remove_router", name)
    /\ UNCHANGED <<nextSid, clock, orphans, det, txt, rd, loop, ops, wt, con>>

\* RouterManager._check_connection_alive: the session afterwards
CheckConnectionAlive(s) == [s EXCEPT !.connected = (s.client = "active")]

\* RouterManager.list_routers
ListRouters ==
    /\ connections' = [n \in DOMAIN connections |->
                          IF connections[n].connected
                          THEN CheckConnectionAlive(connections[n])
                          ELSE connections[n]]
    /\ result' = Result("list_routers", "", TRUE, "", FALSE, "")
    /\ hist' = NoHist
    /\ UNCHANGED <<nextSid, clock, orphans, det, txt, rd, loop, ops, wt, con>>

\* `if not router.connected` of execute_command
NeedsReconnect(name) ==
    name \in DOMAIN connections /\ ~connections[name].connected

\* RouterManager.execute_command
ExecuteCommand(name, command, outcome, detectRaises, fails, retry) ==
    /\ orphans < MaxSessions
    /\ IF name \notin DOMAIN connections
       THEN /\ connections' = connections
            /\ orphans' = orphans
            /\ result' = NotFoundResult("execute_command", name)
            /\ hist' = Hist("execute_command", name)
       ELSE LET router == connections[name]
                reconnect == NeedsReconnect(name)
                linked == IF reconnect
                          THEN Connect(router, clock, outcome, detectRaises)
                          ELSE router
            IN /\ orphans' \in IF reconnect /\ router.client = "active"
                                THEN DropOpen(orphans) ELSE {orphans}
               /\ IF reconnect /\ outcome # "ok"
                  THEN /\ connections' = Put(connections, name, linked)
                       /\ result' = ConnectResult(linked, outcome)
                       /\ hist' = [Hist("execute_command", name) EXCEPT
                                      !.reconnects = 1]
                  ELSE LET run == SendCommand(linked, clock, command, fails,
                                              retry)
                       IN /\ connections' = Put(connections, name, run.session)
                          /\ result' = run.result
                          /\ hist' = [Hist("execute_command", name) EXCEPT
                                 !.detect = IF reconnect
                                            THEN DetectEnd(outcome, detectRaises)
                                            ELSE "",
                                 !.ran = TRUE,
                                 !.raised = run.raised,
                                 !.precheck = /\ linked.connected
                                              /\ linked.shell
                                              /\ EnsureConnectedError(linked) = "",
                                 !.failed = run.failed \ {"ensure_connected"},
                                 !.tx = run.tx,
                                 !.reconnects = IF reconnect THEN 1 ELSE 0,
                                 !.since = linked.last_activity]
    /\ UNCHANGED <<nextSid, clock, det, txt, rd, loop, ops, wt, con>>

\* the network: a session's transport goes down
TransportDrop(name) ==
    /\ name \in DOMAIN connections
    /\ connections[name].client = "active"
    /\ connections' = [connections EXCEPT ![name].client = "inactive"]
    /\ hist' = NoHist
    /\ UNCHANGED <<nextSid, clock, result, orphans, det, txt, rd, loop, ops, wt, con>>

\* time passes
AdvanceClock(d) ==
    /\ clock + d <= 1 + MaxElapsed
    /\ clock' = clock + d
    /\ hist' = NoHist
    /\ UNCHANGED <<connections, nextSid, result, orphans, det, txt, rd, loop, ops, wt, con>>

\* the operator's device_type argument of add_router ("" when not given)
Overrides == {"", "mikrotik", "juniper"}

\* whether execute_command on name gets as far as send_command's channel
\* operations
ReachesChannel(name, outcome) ==
    /\ name \in DOMAIN connections
    /\ IF NeedsReconnect(name) THEN outcome = "ok"
       ELSE /\ connections[name].shell
            /\ EnsureConnectedError(connections[name]) = ""

\* which channel operations raise during one send_command, among those it
\* can get to: by whether the keepalive runs and whether the resend runs.
\* Nothing runs after a step of the command has raised, and the keepalive's
\* read does not run after its send has raised.
FailTable ==
    [idle \in BOOLEAN, retry \in BOOLEAN |->
        LET steps == CommandSteps(retry)
            within == {steps[i] : i \in 1..Len(steps)}
                        \cup (IF idle THEN KeepaliveSteps ELSE {})
        IN {f \in SUBSET within :
               /\ Cardinality(f) <= MaxFailures
               /\ Cardinality(f \ KeepaliveSteps) <= 1
               /\ Cardinality(f \cap KeepaliveSteps) <= 1}]

FailChoices(name, outcome, retry) ==
    IF ~ReachesChannel(name, outcome) THEN {{}}
    ELSE FailTable[~NeedsReconnect(name) /\ IsIdle(connections[name], clock),
                   retry]

\* connects that fail do so before the transport is up
EarlyOutcomes == ConnectOutcomes \ {"shell"}

\* the executor and the registry: every channel operation of send_command
\* may raise, time passes
MainNext ==
    \/ \E name \in Names, device_type \in Overrides,
          outcome \in EarlyOutcomes, detectRaises \in BOOLEAN :
          AddRouter(name, device_type, outcome, detectRaises)
    \/ \E name \in Names : RemoveRouter(name)
    \/ ListRouters
    \/ \E name \in Names, command \in CommandTexts :
         \E outcome \in IF NeedsReconnect(name) THEN EarlyOutcomes ELSE {"ok"} :
           \E detectRaises \in IF NeedsReconnect(name) /\ outcome = "ok"
                               THEN BOOLEAN ELSE {FALSE},
              retry \in IF ReachesChannel(name, outcome)
                        THEN BOOLEAN ELSE {FALSE} :
             \E fails \in FailChoices(name, outcome, retry) :
                ExecuteCommand(name, command, outcome, detectRaises, fails,
                               retry)
    \/ \E name \in Names : TransportDrop(name)
    \/ \E d \in {keepalive_interval, keepalive_interval + 1} : AdvanceClock(d)

\* the registry and its channels: connects may fail at any point, the
\* channel operations of send_command do not raise
RegistryNext ==
    \/ \E name \in Names, device_type \in Overrides,
          outcome \in ConnectOutcomes, detectRaises \in BOOLEAN :
          AddRouter(name, device_type, outcome, detectRaises)
    \/ \E name \in Names : RemoveRouter(name)
    \/ ListRouters
    \/ \E name \in Names, command \in CommandTexts :
         \E outcome \in IF NeedsReconnect(name) THEN ConnectOutcomes ELSE {"ok"} :
           \E detectRaises \in IF NeedsReconnect(name) /\ outcome = "ok"
                               THEN BOOLEAN ELSE {FALSE} :
              ExecuteCommand(name, command, outcome, detectRaises, {}, FALSE)
    \/ \E name \in Names : TransportDrop(name)

Init == MainInit /\ det = DetIdle /\ txt = TxtIdle /\ rd = RdIdle
    /\ loop = LoopIdle /\ ops = OpsIdle /\ wt = WtIdle /\ con = ConIdle
Next == MainNext
Spec == Init /\ [][Next]_vars

InitRegistry == MainInit /\ det = DetIdle /\ txt = TxtIdle /\ rd = RdIdle
    /\ loop = LoopIdle /\ ops = OpsIdle /\ wt = WtIdle /\ con = ConIdle
SpecRegistry == InitRegistry /\ [][RegistryNext]_vars

InitDetect == MainInit /\ DetInit /\ txt = TxtIdle /\ rd = RdIdle
    /\ loop = LoopIdle /\ ops = OpsIdle /\ wt = WtIdle /\ con = ConIdle
NextDetect == DetectScan \/ DetectError
SpecDetect == InitDetect /\ [][NextDetect]_vars

(***************************************************************************)
(* The text path of send_command (lines 272-299): what is captured after   *)
(* the command is sent, the echo-repair resend, and the cleaning.          *)
(***************************************************************************)

MaxLines == 2         \* output lines the device prints for one command

\* command arguments: "s", "sh", "s h", " sh ", " "
Commands == { <<"s">>, <<"s", "h">>, <<"s", " ", "h">>,
              <<" ", "s", "h", " ">>, <<" ">> }

\* output lines: "", "h", " h", "h#", "sh", "h> "
OutLines == { <<>>, <<"h">>, <<" ", "h">>, <<"h", "#">>, <<"s", "h">>,
              <<"h", ">", " ">> }

\* device prompts: "R#", "R> "
Prompts == { <<"R", "#">>, <<"R", ">", " ">> }

\* how the device answers the first transmission: with the echo as sent,
\* with its first character lost, or behind a prompt; with its output lines
\* alone, without echo and prompt ("bare"); with nothing ("silent")
EchoStyles == {"plain", "corrupt", "prefixed", "bare", "silent"}

CRLF == <<"\r", "\n">>

EchoLine(style, command_clean, promptLine) ==
    CASE style = "plain"    -> command_clean
      [] style = "corrupt"  -> DropFirst(command_clean)
      [] style = "prefixed" -> promptLine \o command_clean

\* what the device prints when it receives "\r" + command_clean + "\r":
\* the echo, its output lines, then a prompt; or less
DeviceReply(style, command_clean, lines, promptLine) ==
    IF style = "silent" THEN <<>>
    ELSE IF style = "bare"
    THEN Join([i \in 1..Len(lines) |-> lines[i] \o CRLF], <<>>)
    ELSE EchoLine(style, command_clean, promptLine) \o CRLF
            \o Join([i \in 1..Len(lines) |-> lines[i] \o CRLF], <<>>)
            \o promptLine

\* line.rstrip('\r')
RECURSIVE RStripCR(_)
RStripCR(s) ==
    IF s # <<>> /\ s[Len(s)] = "\r" THEN RStripCR(SubSeq(s, 1, Len(s) - 1)) ELSE s

\* next((l for l in raw_output.splitlines() if l.strip()), "")
RECURSIVE FirstNonBlank(_)
FirstNonBlank(lines) ==
    IF lines = <<>> THEN <<>>
    ELSE IF Strip(Head(lines)) # <<>> THEN Head(lines)
    ELSE FirstNonBlank(Tail(lines))

\* a resend whenever the first line holds the command without its first
\* character, echoed in full or not
ResendOnSuffix(raw_output, command_clean) ==
    Contains(FirstNonBlank(SplitLines(raw_output)), DropFirst(command_clean))

\* the echo-repair condition of line 279
NeedsResend(raw_output, command_clean) ==
    LET first_line == FirstNonBlank(SplitLines(raw_output))
    IN /\ ~Contains(first_line, command_clean)
       /\ Contains(first_line, DropFirst(command_clean))

\* RouterConnection._looks_like_prompt
LooksLikePrompt(line) ==
    LET l == Strip(line)
    IN l # <<>> /\ (EndsWith(l, <<"#">>) \/ EndsWith(l, <<">">>))

\* the echo test of line 290
IsEcho(li, command_clean) ==
    \/ li = command_clean
    \/ EndsWith(li, command_clean)
    \/ Contains(li, command_clean)
    \/ Contains(li, DropFirst(command_clean))

NoPrompt == <<>>      \* self.prompt is None

\* a cleaning loop that tests every line for the echo, not only up to the
\* first match
RECURSIVE CleanEveryEcho(_, _, _, _, _, _, _)
CleanEveryEcho(lines, command_clean, seen_echo, prompt, cleaned, i, echoAt) ==
    IF lines = <<>>
    THEN [cleaned |-> cleaned, prompt |-> prompt, echoAt |-> echoAt]
    ELSE LET li == Strip(RStripCR(Head(lines))) IN
         IF li = <<>>
         THEN CleanEveryEcho(Tail(lines), command_clean, seen_echo, prompt,
                             cleaned, i + 1, echoAt)
         ELSE IF IsEcho(li, command_clean)
         THEN CleanEveryEcho(Tail(lines), command_clean, TRUE, prompt, cleaned,
                             i + 1, IF echoAt = 0 THEN i ELSE echoAt)
         ELSE IF LooksLikePrompt(li)
         THEN CleanEveryEcho(Tail(lines), command_clean, seen_echo,
                             IF prompt = NoPrompt THEN li ELSE prompt, cleaned,
                             i + 1, echoAt)
         ELSE CleanEveryEcho(Tail(lines), command_clean, seen_echo, prompt,
                             Append(cleaned, li), i + 1, echoAt)

\* the cleaning loop of lines 284-298 from line i on; echoAt records which
\* line was dropped as the echo (0: none), for the properties only
RECURSIVE CleanFrom(_, _, _, _, _, _, _)
CleanFrom(lines, command_clean, seen_echo, prompt, cleaned, i, echoAt) ==
    IF lines = <<>>
    THEN [cleaned |-> cleaned, prompt |-> prompt, echoAt |-> echoAt]
    ELSE LET li == Strip(RStripCR(Head(lines))) IN
         IF li = <<>>
         THEN CleanFrom(Tail(lines), command_clean, seen_echo, prompt, cleaned,
                        i + 1, echoAt)
         ELSE IF ~seen_echo /\ IsEcho(li, command_clean)
         THEN CleanFrom(Tail(lines), command_clean, TRUE, prompt, cleaned,
                        i + 1, i)
         ELSE IF LooksLikePrompt(li)
         THEN CleanFrom(Tail(lines), command_clean, seen_echo,
                        IF prompt = NoPrompt THEN li ELSE prompt, cleaned,
                        i + 1, echoAt)
         ELSE CleanFrom(Tail(lines), command_clean, seen_echo, prompt,
                        Append(cleaned, li), i + 1, echoAt)

\* lines 284-299: cleaned output, prompt cache
Clean(raw_output, command_clean, prompt) ==
    LET c == CleanFrom(SplitLines(raw_output), command_clean, FALSE, prompt,
                       <<>>, 1, 0)
    IN [output |-> Strip(Join(c.cleaned, <<"\n">>)),
        prompt |-> c.prompt, echoAt |-> c.echoAt]

\* a command that counts as failed when nothing is left after cleaning
SuccessOnOutput(raw_output, output) == output # <<>>

\* the success entry of the dictionary of lines 305-311
ReturnedSuccess(raw_output, output) == TRUE

LineSeqs == SeqsUpTo(OutLines, MaxLines)

TxtInit ==
    txt \in {[pc |-> "sent", command |-> c, lines |-> ls, promptLine |-> p,
              echo |-> e, raw |-> <<>>, resent |-> FALSE, sends |-> 1,
              prompt |-> NoPrompt,
              output |-> <<>>, echoAt |-> 0, success |-> FALSE] :
                 c \in Commands, ls \in LineSeqs, p \in Prompts, e \in EchoStyles}

\* lines 275-281: collect, and resend once if the echo lost its first
\* character; the second echo arrives on a line of its own.  `sends` counts
\* the shell.send calls that carried the command (line 273 has run at "sent")
Collecting ==
    /\ txt.pc = "sent"
    /\ LET command_clean == Strip(txt.command)
           first == DeviceReply(txt.echo, command_clean, txt.lines, txt.promptLine)
           again == NeedsResend(first, command_clean)
           reply == DeviceReply(IF txt.echo = "corrupt" THEN "plain"
                                ELSE txt.echo,
                                command_clean, txt.lines, txt.promptLine)
           second == IF reply = <<>> THEN <<>> ELSE CRLF \o reply
       IN txt' = [txt EXCEPT !.pc = "collected",
                             !.raw = IF again THEN first \o second ELSE first,
                             !.resent = again,
                             !.sends = IF again THEN 2 ELSE 1]
    /\ UNCHANGED <<mainVars, det, rd, loop, ops, wt, con>>

\* lines 283-299
Cleaning ==
    /\ txt.pc = "collected"
    /\ LET c == Clean(txt.raw, Strip(txt.command), txt.prompt)
       IN txt' = [txt EXCEPT !.pc = "done", !.output = c.output,
                             !.prompt = c.prompt, !.echoAt = c.echoAt,
                             !.success = ReturnedSuccess(txt.raw, c.output)]
    /\ UNCHANGED <<mainVars, det, rd, loop, ops, wt, con>>

InitText == MainInit /\ det = DetIdle /\ TxtInit /\ rd = RdIdle
    /\ loop = LoopIdle /\ ops = OpsIdle /\ wt = WtIdle /\ con = ConIdle
NextText == Collecting \/ Cleaning
SpecText == InitText /\ [][NextText]_vars

(***************************************************************************)
(* The quiet-period reader: RouterConnection._read_until_quiet, as used by *)
(* send_command for the flush (line 270) and the collect (line 275).       *)
(*                                                                         *)
(* The device's bytes travel on a wire and reach the channel buffer in     *)
(* order, at times the reader does not control.  Bytes that reach the      *)
(* buffer at an instant are there for a poll made at that instant; a reply *)
(* reaches it later than the instant the command is sent.  The             *)
(* loop body takes no time; time.sleep suspends for the poll period or     *)
(* longer.  A byte is ASCII, or the lead or the continuation byte of a     *)
(* two-byte UTF-8 character; the text returned is held as the bytes of its *)
(* characters.                                                             *)
(***************************************************************************)

MaxOvershoot == 1     \* sub-ticks the sleeps of one call may last, in all,
                      \* beyond the poll period
RecvChunk == 2        \* bytes one recv returns at most (4096 in the source)

PollTicks == 2                    \* time.sleep(0.05)
FlushQuiet == 3 * PollTicks       \* quiet_time=0.15
FlushTotal == 16 * PollTicks      \* max_total=0.8
CollectQuiet == 10 * PollTicks    \* quiet_time=0.5
CollectTotal == 60 * PollTicks    \* max_total=max(3.0, wait_time), wait_time=2

\* the longest time between two consecutive polls
PollSpan == PollTicks + MaxOvershoot

Byte(kind, era) == [kind |-> kind, era |-> era]

\* the UTF-8 bytes of one character: "a" is ASCII, "e'" takes two bytes
Encode(ch, era) ==
    IF ch = "a" THEN <<Byte("ascii", era)>>
    ELSE <<Byte("lead", era), Byte("cont", era)>>

Chars == {"a", "e'"}

RECURSIVE EncodeAll(_, _)
EncodeAll(text, era) ==
    IF text = <<>> THEN <<>>
    ELSE Encode(Head(text), era) \o EncodeAll(Tail(text), era)

\* chunk.decode('utf-8', errors='ignore'): bytes that do not form a
\* character within the chunk are left out
RECURSIVE Decode(_)
Decode(chunk) ==
    IF chunk = <<>> THEN <<>>
    ELSE IF Head(chunk).kind = "ascii"
    THEN <<Head(chunk)>> \o Decode(Tail(chunk))
    ELSE IF /\ Head(chunk).kind = "lead"
            /\ Len(chunk) >= 2
            /\ chunk[2].kind = "cont"
    THEN <<chunk[1], chunk[2]>> \o Decode(SubSeq(chunk, 3, Len(chunk)))
    ELSE Decode(Tail(chunk))

\* line 232, strictly
QuietReachedLate(now, last, quiet_time) == now - last > quiet_time

\* line 232
QuietReached(now, last, quiet_time) == now - last >= quiet_time

\* line 234, strictly
DeadlineReachedLate(now, start, max_total) == now - start > max_total

\* a reader without the ceiling of line 234
DeadlineNever(now, start, max_total) == FALSE

\* line 234
DeadlineReached(now, start, max_total) == now - start >= max_total

\* a call that goes on with the text of the call before it
StartCallKeepingData(r, call, quiet_time, max_total) ==
    [r EXCEPT !.pc = "poll", !.call = call,
              !.quiet_time = quiet_time, !.max_total = max_total,
              !.start = r.now, !.last = r.now, !.wake = r.now,
              !.received = <<>>, !.T = None, !.prevArrival = r.now,
              !.gapped = FALSE, !.backlog = FALSE, !.lates = 0,
              !.ended = ""]

\* a call whose quiet period is counted from its first sleep on
StartCallQuietLater(r, call, quiet_time, max_total) ==
    [StartCallKeepingData(r, call, quiet_time, max_total)
        EXCEPT !.data = <<>>, !.last = r.now + PollTicks]

\* lines 224-226: data = "", start = last = time.time()
StartCall(r, call, quiet_time, max_total) ==
    [r EXCEPT !.pc = "poll", !.call = call,
              !.quiet_time = quiet_time, !.max_total = max_total,
              !.data = <<>>,
              !.start = r.now, !.last = r.now, !.wake = r.now,
              !.received = <<>>, !.T = None, !.prevArrival = r.now,
              !.gapped = FALSE, !.backlog = FALSE, !.lates = 0,
              !.ended = ""]

\* earlier output still under way, and what the device prints for the
\* command: nothing or one character
OldTexts == {<<>>} \cup {<<ch>> : ch \in Chars}
ReplyTexts == {<<>>} \cup {<<ch>> : ch \in Chars}

\* the state at line 270: earlier output may still be under way (old), its
\* first arrived bytes unread in the buffer; the device will print reply
\* once it has the command; an endless source has a byte for the channel
\* at every instant
ReaderStart(old, arrived, reply, endless) ==
    [StartCall([pc |-> "poll", call |-> "flush", now |-> 0,
               quiet_time |-> 0, max_total |-> 0, data |-> <<>>,
               start |-> 0, last |-> 0, wake |-> 0,
               buffer |-> IF endless THEN <<Byte("ascii", "old")>>
                          ELSE SubSeq(old, 1, arrived),
               wire |-> SubSeq(old, arrived + 1, Len(old)),
               reply |-> reply,
               endless |-> endless,
               received |-> <<>>, T |-> None, prevArrival |-> 0,
               gapped |-> FALSE, backlog |-> FALSE, lates |-> 0,
               ended |-> "", flushed |-> <<>>, flushEnded |-> "",
               lateOld |-> FALSE],
              "flush", FlushQuiet, FlushTotal)
        EXCEPT !.T = IF arrived > 0 THEN 0 ELSE None]

ReaderStarts(old) ==
    {ReaderStart(old, arrived, EncodeAll(reply, "new"), FALSE) :
         arrived \in 0..Len(old), reply \in ReplyTexts}

RdInit ==
    rd \in UNION {ReaderStarts(EncodeAll(old, "old")) : old \in OldTexts}
             \cup {ReaderStart(<<>>, 0, <<>>, TRUE)}

\* the channel after k more bytes of the wire have reached it at time now
Arrive(r, now, k) ==
    IF r.endless
    THEN [r EXCEPT !.buffer = Append(r.buffer,
                                     Byte("ascii", IF r.call = "flush"
                                                   THEN "old" ELSE "new"))]
    ELSE IF k = 0 THEN r
    ELSE [r EXCEPT !.buffer = r.buffer \o SubSeq(r.wire, 1, k),
                   !.wire = SubSeq(r.wire, k + 1, Len(r.wire)),
                   !.T = now,
                   !.prevArrival = now,
                   !.gapped = r.gapped \/ now - r.prevArrival >= r.quiet_time,
                   !.lateOld = r.lateOld
                                 \/ (r.call = "collect"
                                       /\ Head(r.wire).era = "old")]

\* time passes while the reader sleeps (line 236); bytes may reach the
\* channel
Tick ==
    /\ rd.pc = "poll"
    /\ rd.now < rd.wake
    /\ \E k \in 0..Len(rd.wire) :
         rd' = [Arrive(rd, rd.now + 1, k) EXCEPT !.now = rd.now + 1]
    /\ UNCHANGED <<mainVars, det, txt, loop, ops, wt, con>>

\* one pass of the loop, lines 227-236
Poll ==
    /\ rd.pc = "poll"
    /\ rd.now = rd.wake
    /\ \E over \in 0..(MaxOvershoot - rd.lates) :
         LET ready == rd.buffer # <<>>
             n == IF Len(rd.buffer) < RecvChunk THEN Len(rd.buffer)
                  ELSE RecvChunk
             chunk == SubSeq(rd.buffer, 1, n)
             data == IF ready THEN rd.data \o Decode(chunk) ELSE rd.data
             last == IF ready THEN rd.now ELSE rd.last
             polled == [rd EXCEPT !.buffer = SubSeq(rd.buffer, n + 1,
                                                    Len(rd.buffer)),
                                  !.data = data,
                                  !.last = last,
                                  !.received = rd.received \o chunk,
                                  !.backlog = rd.backlog
                                                \/ Len(rd.buffer) > RecvChunk]
         IN rd' = IF QuietReached(rd.now, last, rd.quiet_time)
                  THEN [polled EXCEPT !.pc = "returned", !.ended = "quiet"]
                  ELSE IF DeadlineReached(rd.now, rd.start, rd.max_total)
                  THEN [polled EXCEPT !.pc = "returned", !.ended = "deadline"]
                  ELSE [polled EXCEPT !.wake = rd.now + PollTicks + over,
                                      !.lates = rd.lates + over]
    /\ UNCHANGED <<mainVars, det, txt, loop, ops, wt, con>>

\* lines 270-275: the flush's text is dropped, the command is sent, the
\* device puts its reply on the wire, the collect begins
SendBytes ==
    /\ rd.pc = "returned"
    /\ rd.call = "flush"
    /\ rd' = StartCall([rd EXCEPT !.flushed = rd.data,
                                  !.flushEnded = rd.ended,
                                  !.wire = rd.wire \o rd.reply,
                                  !.reply = <<>>],
                       "collect", CollectQuiet, CollectTotal)
    /\ UNCHANGED <<mainVars, det, txt, loop, ops, wt, con>>

InitReader == MainInit /\ det = DetIdle /\ txt = TxtIdle /\ RdInit
    /\ loop = LoopIdle /\ ops = OpsIdle /\ wt = WtIdle /\ con = ConIdle
NextReader == Tick \/ Poll \/ SendBytes
SpecReader == InitReader /\ [][NextReader]_vars

(***************************************************************************)
(* Properties of the registry and the executor (Spec)                      *)
(***************************************************************************)

\* C1 (as claimed): send_command never raises, returns success=false with
\* an error description when any of its steps failed -- the idle keepalive
\* included -- and success=true otherwise.
C1_AnyFailureFailsCommand ==
    hist.ran =>
        /\ ~hist.raised
        /\ result.success = (hist.precheck /\ hist.failed = {})
        /\ (~result.success => result.error # "")

\* C1 (amended): send_command never raises; it returns success=false with
\* an error description exactly when the connection checks fail or a step
\* other than the idle keepalive fails; a failure of the keepalive alone is
\* swallowed and the command still returns success=true.
C1_FailureIffUnswallowedStepFails ==
    hist.ran =>
        /\ ~hist.raised
        /\ result.success = (hist.precheck /\ hist.failed \ KeepaliveSteps = {})
        /\ (~result.success => result.error # "")

\* an idle session whose keepalive send raised and whose command succeeded
C1_Witness ==
    /\ hist.ran
    /\ hist.failed = {"keepalive_send"}
    /\ result.success
    /\ Len(hist.tx) = 1

\* C9 (as claimed): while a session object stays registered its dialect
\* never changes, whatever operations run, transparent reconnects included.
C9_DialectFixedWhileRegistered ==
    [][nextSid' = nextSid =>
          \A n \in DOMAIN connections \cap DOMAIN connections' :
              connections'[n].device_type = connections[n].device_type]_vars

\* whether send_command got its command onto the channel
CommandSent == \E i \in 1..Len(hist.tx) : hist.tx[i] # "\r"

C33_KeepaliveIffIdle ==
    (hist.ran /\ hist.precheck) =>
        LET idle == clock - hist.since > keepalive_interval
            returns == {i \in 1..Len(hist.tx) : hist.tx[i] = "\r"}
        IN /\ hist.since # None
           /\ returns # {} => (idle /\ returns = {1})
           /\ idle => (returns = {1} \/ "keepalive_send" \in hist.failed)
           /\ ~idle => hist.failed \cap KeepaliveSteps = {}
           /\ hist.failed \subseteq KeepaliveSteps => result.success

\* an idle session was sent the carriage return, reading the answer raised,
\* and the command went out after it and succeeded
C33_Witness ==
    /\ hist.ran
    /\ hist.failed = {"keepalive_read"}
    /\ Len(hist.tx) = 2
    /\ hist.tx[1] = "\r"
    /\ result.success
    /\ clock - hist.since = keepalive_interval + 1

(***************************************************************************)
(* Properties of dialect detection (SpecDetect)                            *)
(***************************************************************************)

\* C10 (as claimed): a response holding a keyword of the legacy Cisco group
\* and a keyword of the modern Cisco group is detected as cisco_ios_xe.
C10_ModernWinsOverLegacy ==
    (/\ det.pc = "done"
     /\ AnyKeyword(Upper(det.response), ios_keywords)
     /\ AnyKeyword(Upper(det.response), ios_xe_keywords))
        => det.device_type = "cisco_ios_xe"

\* C11 (as claimed): whenever the uppercased response holds a keyword of
\* the modern Cisco group, detection sets cisco_ios_xe, whatever else the
\* response holds or lacks.
C11_ModernKeywordCommits ==
    (det.pc = "done" /\ AnyKeyword(Upper(det.response), ios_xe_keywords))
        => det.device_type = "cisco_ios_xe"

\* whether the response holds a keyword of some dialect's group
MatchesAGroup(version_output) ==
    LET version_upper == Upper(version_output) IN
    \/ AnyKeyword(version_upper, ios_xe_keywords)
    \/ AnyKeyword(version_upper, ios_keywords)
    \/ /\ Contains(version_upper, <<"CISCO">>)
       /\ \/ Contains(version_upper, <<"SOFTWARE">>)
          \/ Contains(version_upper, <<"VERSION">>)
    \/ Contains(version_upper, <<"MIKROTIK">>)
    \/ Contains(version_output, <<"]", ">">>)
    \/ AnyKeyword(version_upper, {<<"HUAWEI">>, <<"VRP">>, <<"QUIDWAY">>})
    \/ AnyKeyword(version_upper, {<<"JUNIPER">>, <<"JUNOS">>})

\* C34 (as claimed): a response that holds no keyword of any group is
\* detected as cisco_ios_xe when it holds '#' or '>' and as generic when it
\* does not, and generic is the result only for a response in which nothing
\* matches: no keyword of any group and no '#' or '>'.
C34_GenericOnlyWhenNothingMatches ==
    det.pc = "done" =>
        /\ ~MatchesAGroup(det.response) =>
              det.device_type = IF HasPromptMark(det.response)
                                THEN "cisco_ios_xe" ELSE "generic"
        /\ det.device_type = "generic" =>
              (~MatchesAGroup(det.response) /\ ~HasPromptMark(det.response))

\* C34, the part that holds: a response that holds no keyword of any group
\* is detected as cisco_ios_xe when it holds '#' or '>' and as generic when
\* it does not; generic is the result only for a response without '#' and
\* '>' and without a keyword of the mikrotik, huawei and juniper groups.
C34_DefaultWithoutKeyword ==
    det.pc = "done" =>
        /\ ~MatchesAGroup(det.response) =>
              det.device_type = IF HasPromptMark(det.response)
                                THEN "cisco_ios_xe" ELSE "generic"
        /\ det.device_type = "generic" =>
              /\ ~HasPromptMark(det.response)
              /\ ~Contains(Upper(det.response), <<"MIKROTIK">>)
              /\ ~Contains(Upper(det.response), <<"HUAWEI">>)
              /\ ~Contains(Upper(det.response), <<"JUNOS">>)

(***************************************************************************)
(* Properties of the text path (SpecText)                                  *)
(***************************************************************************)

\* the capture is the sent command on its first line, the device's output
\* lines, then a prompt line
C3_Shape ==
    /\ txt.pc = "done"
    /\ txt.echo = "plain"
    /\ txt.raw = DeviceReply("plain", Strip(txt.command), txt.lines, txt.promptLine)

\* C3 (as claimed, for the non-empty commands): cleaning such a capture
\* yields exactly the N output lines, unchanged and in order.
C3_RoundTripVerbatim ==
    (C3_Shape /\ Strip(txt.command) # <<>>) =>
        txt.output = Join(txt.lines, <<"\n">>)

\* a trimmed line that is neither blank nor ends in '#' or '>'
C3_Kept(l) == l # <<>> /\ l[Len(l)] \notin {"#", ">"}

\* the lines after the first non-blank one
RECURSIVE C3_AfterFirstNonBlank(_)
C3_AfterFirstNonBlank(ls) ==
    IF ls = <<>> THEN <<>>
    ELSE IF Head(ls) # <<>> THEN Tail(ls)
    ELSE C3_AfterFirstNonBlank(Tail(ls))

\* C3 (amended): cleaning such a capture yields, in their original order
\* and joined by line feeds, the output lines with surrounding whitespace
\* removed, except those that are blank or end in '#' or '>'; when the
\* command is empty (whitespace only) the first non-blank output line is
\* dropped as well.
C3_RoundTripTrimmedKept ==
    C3_Shape =>
        LET trimmed == [i \in 1..Len(txt.lines) |-> Strip(txt.lines[i])]
            scanned == IF Strip(txt.command) = <<>>
                       THEN C3_AfterFirstNonBlank(trimmed)
                       ELSE trimmed
        IN txt.output = Join(SelectSeq(scanned, C3_Kept), <<"\n">>)

\* command "sh"; output lines " h" (kept, trimmed), "sh" (kept although it
\* repeats the command)
C3_Witness ==
    /\ C3_Shape
    /\ Strip(txt.command) = <<"s", "h">>
    /\ txt.lines = << <<" ", "h">>, <<"s", "h">> >>
    /\ txt.output = <<"h", "\n", "s", "h">>

\* C4 (as claimed): when the first captured line is the command without
\* its first character, cleaning drops that line as the echo.
C4_CorruptedEchoDropped ==
    (/\ txt.pc = "done"
     /\ txt.echo = "corrupt"
     /\ Strip(DropFirst(Strip(txt.command))) # <<>>)
        => txt.echoAt = 1

\* C5 (as claimed): for a device that echoes every command and ends its
\* output with a prompt, the cleaned output holds no echo of the command
\* and no prompt line, with or without the resend.  (Devices whose own
\* output lines repeat the command text are left out.)
C5_NoEchoNoPromptInOutput ==
    (/\ txt.pc = "done"
     /\ txt.echo \in {"plain", "corrupt", "prefixed"}
     /\ Strip(txt.command) # <<>>
     /\ \A i \in 1..Len(txt.lines) : ~Contains(txt.lines[i], Strip(txt.command)))
        => \A l \in {SplitLines(txt.output)[i] : i \in 1..Len(SplitLines(txt.output))} :
               /\ ~LooksLikePrompt(l)
               /\ ~Contains(l, Strip(txt.command))

(***************************************************************************)
(* Properties of the quiet-period reader (SpecReader)                      *)
(***************************************************************************)

\* the result of the command is in: the collect has returned
C2_Done == rd.pc = "returned" /\ rd.call = "collect"

C2_NoneOld(data) == \A i \in 1..Len(data) : data[i].era = "new"

\* C2 (as claimed): no byte the device emitted before the command was
\* transmitted is part of the command's result, whenever it reaches the
\* channel.
C2_NoStragglerInResult == C2_Done => C2_NoneOld(rd.data)

\* C2 (amended): when the flush returns on its quiet interval and no byte
\* of earlier output reaches the channel after that, no byte emitted before
\* the command was transmitted is part of the command's result.
C2_FlushedStragglersNotInResult ==
    (C2_Done /\ rd.flushEnded = "quiet" /\ ~rd.lateOld)
        => C2_NoneOld(rd.data)

\* the flush has read and dropped earlier output, and the result holds the
\* reply
C2_Witness ==
    /\ C2_Done
    /\ rd.flushEnded = "quiet"
    /\ ~rd.lateOld
    /\ rd.flushed # <<>>
    /\ rd.data # <<>>

\* a call has returned after its source stopped at time T, with the
\* deadline later than T + Q
C6_Stopped ==
    /\ rd.pc = "returned"
    /\ ~rd.endless
    /\ rd.wire = <<>>
    /\ rd.T # None
    /\ rd.max_total > (rd.T - rd.start) + rd.quiet_time

\* C6 (as claimed): the call returns at a time >= T + Q and < T + Q + one
\* poll period.
C6_ReturnsWithinOnePoll ==
    C6_Stopped =>
        /\ rd.now >= rd.T + rd.quiet_time
        /\ rd.now < rd.T + rd.quiet_time + PollTicks

\* C6 (amended): if the source never paused for Q or longer before T and
\* no poll found more than one recv's worth of bytes, the call returns at a
\* time >= T + Q and < T + Q + one poll period + the time by which the
\* call's sleeps overran.
C6_ReturnsAfterQuiet ==
    (C6_Stopped /\ ~rd.gapped /\ ~rd.backlog) =>
        /\ rd.now >= rd.T + rd.quiet_time
        /\ rd.now < rd.T + rd.quiet_time + PollTicks + rd.lates

\* a source that stopped between two polls of the call, and a return a full
\* poll period after T + Q because a sleep overran
C6_Witness ==
    /\ C6_Stopped
    /\ ~rd.gapped
    /\ ~rd.backlog
    /\ rd.T > rd.start
    /\ rd.data # <<>>
    /\ rd.lates > 0
    /\ rd.now = rd.T + rd.quiet_time + PollTicks

\* C7 (as claimed): with a source that never stops, the call returns at
\* exactly max_total after its start.
C7_ReturnsAtDeadline ==
    (rd.pc = "returned" /\ rd.endless) => rd.now - rd.start = rd.max_total

\* C7 (amended): with a source that never stops, the call returns on the
\* deadline test, not before max_total has passed since its start and later
\* than that by no more than the time by which its sleeps overran.
C7_ReturnsAtFirstPollAfterDeadline ==
    (rd.pc = "returned" /\ rd.endless) =>
        /\ rd.ended = "deadline"
        /\ rd.now - rd.start >= rd.max_total
        /\ rd.now - rd.start <= rd.max_total + rd.lates

\* the collect has run into its deadline against an endless source, later
\* than max_total because a sleep overran
C7_Witness ==
    /\ rd.pc = "returned"
    /\ rd.endless
    /\ rd.call = "collect"
    /\ rd.ended = "deadline"
    /\ rd.lates > 0
    /\ rd.now - rd.start > rd.max_total

\* C8 (as claimed): what a call returns is exactly the bytes it received
\* from the channel, in arrival order, whether it ended on quiet or on the
\* deadline.
C8_ReturnsBytesReceived ==
    rd.pc = "returned" =>
        /\ rd.ended \in {"quiet", "deadline"}
        /\ rd.data = rd.received

C12_AlwaysADialect ==
    /\ DetectRange \subseteq DeviceTypes
    /\ \A n \in DOMAIN connections :
          connections[n].device_type \in DeviceTypes
    /\ hist.detect = "raised" =>
          /\ hist.name \in DOMAIN connections
          /\ hist.op = "add_router" => result.success
          /\ hist.op = "execute_command" => hist.ran
          /\ hist.override = "" =>
                connections[hist.name].device_type = "cisco_ios_xe"

\* a session registered by an add_router whose detection hit an internal
\* error, without an override
C12_Witness ==
    /\ hist.op = "add_router"
    /\ hist.detect = "raised"
    /\ hist.override = ""
    /\ hist.name \in DOMAIN connections
    /\ connections[hist.name].device_type = "cisco_ios_xe"

\* C13: execute_command with a name that is not registered returns a failure
\* result saying the router was not found; the step raises nothing, reaches
\* no connect and no send_command (nothing is transmitted, no channel is
\* opened) and leaves the registry as it was.
C13_UnknownNameNotFound ==
    [][(hist'.op = "execute_command" /\ ~hist'.known) =>
          /\ connections' = connections
          /\ orphans' = orphans
          /\ result'.op = "execute_command"
          /\ result'.target = hist'.name
          /\ ~result'.success
          /\ result'.error = "not found"
          /\ ~hist'.raised
          /\ ~hist'.ran
          /\ hist'.tx = <<>>
          /\ hist'.reconnects = 0]_vars

\* execute_command has just been called with an unregistered name while
\* another session is registered
C13_Witness ==
    /\ hist.op = "execute_command"
    /\ ~hist.known
    /\ hist.name \notin DOMAIN connections
    /\ DOMAIN connections # {}
    /\ ~result.success

\* C36: remove_router on a registered name disconnects the session (its
\* transport is no longer active, its connected flag is cleared) and deletes
\* the entry, leaving every other entry as it was, so that the name is not
\* among those list_routers goes through and execute_command finds no entry
\* for it; on a name that is not registered it returns the not-found failure
\* and changes neither the registry nor any connection.
C36_RemoveClosesAndDeletes ==
    [][\A name \in Names :
        RemoveRouter(name) =>
            IF name \in DOMAIN connections
            THEN /\ name \notin DOMAIN connections'
                 /\ DOMAIN connections' = DOMAIN connections \ {name}
                 /\ \A n \in DOMAIN connections' :
                       connections'[n] = connections[n]
                 /\ hist'.removed.host = connections[name].host
                 /\ hist'.removed.client # "active"
                 /\ ~hist'.removed.connected
                 /\ result'.success
                 /\ orphans' = orphans
            ELSE /\ connections' = connections
                 /\ orphans' = orphans
                 /\ nextSid' = nextSid
                 /\ ~result'.success
                 /\ result'.error = "not found"
                 /\ result'.target = name]_vars

\* a session whose transport was active has been removed while another one
\* stays registered
C36_Witness ==
    /\ hist.op = "remove_router"
    /\ hist.known /\ hist.alive
    /\ result.success
    /\ hist.removed.client = "inactive"
    /\ hist.name \notin DOMAIN connections
    /\ DOMAIN connections # {}

\* C14 (as claimed): whenever execute_command is called for a registered
\* session whose transport is not active at the time of the call, it makes
\* exactly one reconnect attempt before it goes on to send_command.
C14_ReconnectsWhenTransportDown ==
    (hist.op = "execute_command" /\ hist.known /\ ~hist.alive)
        => hist.reconnects = 1

\* C15 (as claimed): in every reachable state every open connection belongs
\* to a session held in the registry: after any sequence of add_router (also
\* with a name already in use), remove_router, failed connect and reconnect,
\* no connection is open whose session is not registered or whose handle
\* has been replaced.
C15_NoChannelOutlivesSession == orphans = 0

(***************************************************************************)
(* The request handlers on the event loop (SpecLoop)                       *)
(*                                                                         *)
(* connect_router, list_routers, disconnect_router and                     *)
(* execute_router_command of main_router.py are coroutines that call the   *)
(* blocking methods of the one RouterManager.  Each request is a task; a   *)
(* task's pc is its position inside the method it calls.  The devices      *)
(* answer on their own schedule: the output of a command reaches the       *)
(* channel at any later time.  Output is tagged with the request that      *)
(* sent the command.                                                       *)
(***************************************************************************)

MaxRequests == 4
Requests == 1..MaxRequests
\* the tag of output whose call has returned
Returned == 0

NoTask == [op |-> "", name |-> "", pc |-> "new", size |-> 0, seen |-> {}]

\* a session as the handlers see it: its channel, the bytes buffered on the
\* channel and the output the device has still to deliver
OpenSession == [open |-> TRUE, buf |-> {}, pending |-> {}]

\* the server with some sessions registered by earlier requests
LoopInit ==
    \E registered \in SUBSET Names :
        loop = [pc |-> "serving",
                map |-> [n \in registered |-> OpenSession],
                task |-> [r \in Requests |-> NoTask],
                listFailed |-> FALSE, sawHalf |-> FALSE, onClosed |-> FALSE,
                late |-> FALSE, mixed |-> FALSE]

\* handlers that give the event loop back at every step
Yielding(r) == FALSE

\* the task is inside a method of RouterManager
Active(r) == loop.task[r].pc \notin {"new", "queued", "done"}

\* a scheduler that hands every request to a free worker thread
WorkerFree == TRUE

\* the event loop runs one coroutine at a time and the handlers do not
\* await between entering the RouterManager method and returning from it
LoopFree == \A r \in Requests : ~Active(r)

\* the channel of the task's session can be used
Usable(r) ==
    /\ loop.task[r].name \in DOMAIN loop.map
    /\ loop.map[loop.task[r].name].open

\* the handler returns (a result or an HTTP error)
Finish(t) == [NoTask EXCEPT !.pc = "done"]

\* the call of request r has returned: what the device still sends for it
\* is late output
Retag(m, r) ==
    [n \in DOMAIN m |->
        [m[n] EXCEPT
            !.buf = IF r \in @ THEN (@ \ {r}) \cup {Returned} ELSE @,
            !.pending = IF r \in @ THEN (@ \ {r}) \cup {Returned} ELSE @]]

\* a request reaches the server and waits for the event loop; which
\* endpoint and which session it names shows when its handler starts
Accept(r) ==
    /\ loop.pc = "serving"
    /\ loop.task[r].pc = "new"
    /\ IF r = 1 THEN TRUE ELSE loop.task[r - 1].pc # "new"
    /\ loop' = [loop EXCEPT !.task[r].pc = "queued"]
    /\ UNCHANGED <<mainVars, det, txt, rd, ops, wt, con>>

\* connect_router enters add_router: RouterConnection(...).connect() begins
StartAdd(r, name) ==
    /\ loop.task[r].pc = "queued"
    /\ LoopFree
    /\ loop' = [loop EXCEPT !.task[r] =
                    [@ EXCEPT !.op = "add", !.name = name, !.pc = "connect"]]
    /\ UNCHANGED <<mainVars, det, txt, rd, ops, wt, con>>

\* connect() returns; on success add_router stores the session
FinishAdd(r, ok) ==
    /\ loop.task[r].pc = "connect"
    /\ loop' = IF ok
               THEN [loop EXCEPT
                        !.map = Put(loop.map, loop.task[r].name, OpenSession),
                        !.task[r] = Finish(@)]
               ELSE [loop EXCEPT !.task[r] = Finish(@)]
    /\ UNCHANGED <<mainVars, det, txt, rd, ops, wt, con>>

\* disconnect_router enters remove_router: the lookup and disconnect()
StartRemove(r, name) ==
    /\ loop.task[r].pc = "queued"
    /\ LoopFree
    /\ loop' = IF name \in DOMAIN loop.map
               THEN [loop EXCEPT
                       !.map[name].open = FALSE,
                       !.task[r] = [@ EXCEPT !.op = "remove", !.name = name,
                                             !.pc = "del"]]
               ELSE [loop EXCEPT !.task[r] = Finish(@)]
    /\ UNCHANGED <<mainVars, det, txt, rd, ops, wt, con>>

\* del self.connections[name]
FinishRemove(r) ==
    /\ loop.task[r].pc = "del"
    /\ LET name == loop.task[r].name IN
       loop' = IF name \in DOMAIN loop.map
               THEN [loop EXCEPT !.map = Del(loop.map, name),
                                 !.task[r] = Finish(@)]
               ELSE [loop EXCEPT !.task[r] = Finish(@)]
    /\ UNCHANGED <<mainVars, det, txt, rd, ops, wt, con>>

\* list_routers begins to iterate self.connections.items()
StartList(r) ==
    /\ loop.task[r].pc = "queued"
    /\ LoopFree
    /\ loop' = IF DOMAIN loop.map = {}
               THEN [loop EXCEPT !.task[r] = Finish(@)]
               ELSE [loop EXCEPT !.task[r] =
                        [@ EXCEPT !.op = "list", !.pc = "iter",
                                  !.size = Cardinality(DOMAIN loop.map)]]
    /\ UNCHANGED <<mainVars, det, txt, rd, ops, wt, con>>

\* one turn of the loop of list_routers: the iterator raises RuntimeError
\* when the dictionary has changed size
VisitList(r) ==
    /\ loop.task[r].pc = "iter"
    /\ LET t == loop.task[r]
           todo == DOMAIN loop.map \ t.seen
       IN IF Cardinality(DOMAIN loop.map) # t.size
          THEN loop' = [loop EXCEPT !.task[r] = Finish(@),
                                    !.listFailed = TRUE]
          ELSE IF todo = {}
          THEN loop' = [loop EXCEPT !.task[r] = Finish(@)]
          ELSE \E n \in todo :
                 loop' = [loop EXCEPT
                     !.task[r] = IF todo = {n} THEN Finish(@)
                                 ELSE [@ EXCEPT !.seen = @ \cup {n}],
                     !.sawHalf = @ \/ ~loop.map[n].open]
    /\ UNCHANGED <<mainVars, det, txt, rd, ops, wt, con>>

\* execute_router_command enters execute_command: the lookup, the reconnect
\* of a session that is not connected, and send_command up to its flush
StartRun(r, name) ==
    /\ loop.task[r].pc = "queued"
    /\ LoopFree
    /\ loop' = IF name \notin DOMAIN loop.map
               THEN [loop EXCEPT !.task[r] = Finish(@)]
               ELSE [loop EXCEPT
                       !.map[name] = IF @.open THEN @ ELSE OpenSession,
                       !.task[r] = [@ EXCEPT !.op = "run", !.name = name,
                                             !.pc = "flush"]]
    /\ UNCHANGED <<mainVars, det, txt, rd, ops, wt, con>>

\* a channel operation of a task whose channel has been closed or whose
\* session has been removed
OnClosed(r) ==
    [loop EXCEPT !.task[r] = Finish(@), !.onClosed = TRUE,
                 !.map = Retag(@, r)]

\* send_command: self._read_until_quiet(0.15, 0.8), its value dropped
RunFlush(r) ==
    /\ loop.task[r].pc = "flush"
    /\ LET name == loop.task[r].name IN
       loop' = IF ~Usable(r) THEN OnClosed(r)
               ELSE [loop EXCEPT !.map[name].buf = {},
                                 !.task[r].pc = "send"]
    /\ UNCHANGED <<mainVars, det, txt, rd, ops, wt, con>>

\* send_command: self.shell.send(command); the device will answer
RunSend(r) ==
    /\ loop.task[r].pc = "send"
    /\ LET name == loop.task[r].name IN
       loop' = IF ~Usable(r) THEN OnClosed(r)
               ELSE [loop EXCEPT !.map[name].pending = @ \cup {r},
                                 !.task[r].pc = "collect"]
    /\ UNCHANGED <<mainVars, det, txt, rd, ops, wt, con>>

\* send_command: raw_output = self._read_until_quiet(...), and the return
RunCollect(r) ==
    /\ loop.task[r].pc = "collect"
    /\ LET name == loop.task[r].name IN
       loop' = IF ~Usable(r) THEN OnClosed(r)
               ELSE LET output == loop.map[name].buf IN
                    [loop EXCEPT
                       !.map = Retag([@ EXCEPT ![name].buf = {}], r),
                       !.late = @ \/ Returned \in output,
                       !.mixed = @ \/ output \ {r, Returned} # {},
                       !.task[r] = Finish(@)]
    /\ UNCHANGED <<mainVars, det, txt, rd, ops, wt, con>>

\* the device: output of a command reaches the channel of its session
Deliver(name, q) ==
    /\ loop.pc = "serving"
    /\ name \in DOMAIN loop.map
    /\ q \in loop.map[name].pending
    /\ loop' = [loop EXCEPT !.map[name].pending = @ \ {q},
                            !.map[name].buf = @ \cup {q}]
    /\ UNCHANGED <<mainVars, det, txt, rd, ops, wt, con>>

InitLoop == MainInit /\ det = DetIdle /\ txt = TxtIdle /\ rd = RdIdle
    /\ LoopInit /\ ops = OpsIdle /\ wt = WtIdle /\ con = ConIdle

NextLoop ==
    \/ \E r \in Requests : Accept(r)
    \/ \E r \in Requests, name \in Names : StartAdd(r, name)
    \/ \E r \in Requests, ok \in BOOLEAN : FinishAdd(r, ok)
    \/ \E r \in Requests, name \in Names : StartRemove(r, name)
    \/ \E r \in Requests : FinishRemove(r)
    \/ \E r \in Requests : StartList(r)
    \/ \E r \in Requests : VisitList(r)
    \/ \E r \in Requests, name \in Names : StartRun(r, name)
    \/ \E r \in Requests : RunFlush(r)
    \/ \E r \in Requests : RunSend(r)
    \/ \E r \in Requests : RunCollect(r)
    \/ \E name \in Names, q \in Requests \cup {Returned} : Deliver(name, q)

SpecLoop == InitLoop /\ [][NextLoop]_vars

\* the number of send_command calls in flight on session n
InFlight(n) ==
    Cardinality({r \in Requests :
                    /\ loop.task[r].op = "run" /\ loop.task[r].name = n
                    /\ loop.task[r].pc \in {"flush", "send", "collect"}})

\* C16 (as claimed): on one session at most one send_command is in flight at
\* any time, and each result contains only the output of its own command.
C16_OnlyOwnOutput ==
    /\ \A n \in Names : InFlight(n) <= 1
    /\ ~loop.late
    /\ ~loop.mixed

\* C16 (amended): on one session at most one send_command is in flight at any
\* time, whatever requests are waiting, and no result contains output of a
\* command of another call that is still in flight; a result contains only
\* output of its own command or late output of calls that have returned.
C16_OneInFlight ==
    /\ \A n \in Names : InFlight(n) <= 1
    /\ ~loop.mixed

\* a command has been sent on a session that holds late output of an
\* earlier call, while another request waits for the event loop
C16_Witness ==
    \E r, q \in Requests :
        /\ loop.task[r].op = "run" /\ loop.task[r].pc = "collect"
        /\ Returned \in loop.map[loop.task[r].name].pending
        /\ loop.task[q].pc = "queued"

\* C17: add_router and remove_router are atomic with respect to concurrent
\* list_routers and execute_command.  No list_routers call fails, none
\* reports a session that a remove_router in progress has disconnected and
\* not yet deleted, and no send_command step runs on a session that is no
\* longer registered or whose channel a remove_router has closed.
C17_MutationsAtomic ==
    /\ ~loop.listFailed
    /\ ~loop.sawHalf
    /\ ~loop.onClosed
    /\ \A r \in Requests :
         /\ loop.task[r].pc = "iter" =>
               /\ loop.task[r].seen \subseteq DOMAIN loop.map
               /\ loop.task[r].size = Cardinality(DOMAIN loop.map)
         /\ loop.task[r].pc \in {"flush", "send", "collect"} => Usable(r)

\* remove_router has disconnected a session and not yet deleted it, while
\* two other requests wait for the event loop
C17_Witness ==
    \E m, l, r \in Requests :
        /\ loop.task[m].op = "remove" /\ loop.task[m].pc = "del"
        /\ ~loop.map[loop.task[m].name].open
        /\ l # r
        /\ loop.task[l].pc = "queued"
        /\ loop.task[r].pc = "queued"

(***************************************************************************)
(* Composite operations (SpecOps)                                          *)
(*                                                                         *)
(* get_router_info, backup_config and get_logs on a registry that holds    *)
(* one session under the name "r1".  Each operation is one step; every     *)
(* execute_command it makes has its own environment (whether the call      *)
(* works).  The trace lists, in program order,                             *)
(* the commands handed to execute_command and the write of the backup      *)
(* file.                                                                   *)
(***************************************************************************)

\* RouterManager.command_templates with fewer keys
SparseTemplates ==
    [d \in TemplateTypes |->
        [show_version |-> "show version",
         show_running |-> "show running-config"]]

\* RouterManager.command_templates
command_templates ==
    [
     cisco_ios |->
        [
         show_version |-> "show version",
         show_running |-> "show running-config",
         show_interfaces |-> "show ip interface brief",
         show_routes |-> "show ip route",
         show_arp |-> "show arp",
         show_mac |-> "show mac address-table",
         show_log |-> "show logging",
         show_inventory |-> "show inventory",
         show_processes |-> "show processes cpu",
         show_memory |-> "show memory",
         show_uptime |-> "show version | include uptime"],
     cisco_ios_xe |->
        [
         show_version |-> "show version",
         show_running |-> "show running-config",
         show_interfaces |-> "show ip interface brief",
         show_routes |-> "show ip route",
         show_arp |-> "show arp",
         show_mac |-> "show mac address-table",
         show_log |-> "show logging",
         show_inventory |-> "show inventory",
         show_processes |-> "show processes cpu sorted",
         show_memory |-> "show memory statistics",
         show_platform |-> "show platform",
         show_environment |-> "show environment all",
         show_redundancy |-> "show redundancy",
         show_stackwise |-> "show switch",
         show_license |-> "show license summary",
         show_boot |-> "show boot",
         show_flash |-> "show flash:",
         show_interfaces_status |-> "show interfaces status",
         show_interfaces_description |-> "show interfaces description",
         show_vlan |-> "show vlan brief",
         show_spanning_tree |-> "show spanning-tree summary",
         show_cdp_neighbors |-> "show cdp neighbors detail",
         show_lldp_neighbors |-> "show lldp neighbors detail",
         show_etherchannel |-> "show etherchannel summary",
         show_hsrp |-> "show standby brief",
         show_vrf |-> "show vrf",
         show_bgp |-> "show ip bgp summary",
         show_ospf |-> "show ip ospf neighbor",
         show_eigrp |-> "show ip eigrp neighbors",
         show_nat |-> "show ip nat translations",
         show_access_lists |-> "show access-lists",
         show_route_map |-> "show route-map",
         show_policy_map |-> "show policy-map",
         show_qos |-> "show policy-map interface",
         show_crypto |-> "show crypto session",
         show_vpn |-> "show crypto isakmp sa",
         show_users |-> "show users",
         show_sessions |-> "show sessions",
         show_clock |-> "show clock",
         show_ntp |-> "show ntp status"],
     generic |->
        [
         show_version |-> "show version",
         show_running |-> "show running-config",
         show_interfaces |-> "show ip interface brief",
         show_routes |-> "show ip route",
         show_arp |-> "show arp",
         show_mac |-> "show mac address-table",
         show_log |-> "show logging",
         show_inventory |-> "show inventory",
         show_processes |-> "show processes cpu",
         show_memory |-> "show memory",
         show_platform |-> "show platform",
         show_environment |-> "show environment all"],
     mikrotik |->
        [
         show_version |-> "/system resource print",
         show_running |-> "/export compact",
         show_interfaces |-> "/interface print",
         show_routes |-> "/ip route print",
         show_arp |-> "/ip arp print",
         show_mac |-> "/interface bridge host print",
         show_log |-> "/log print"],
     huawei |->
        [
         show_version |-> "display version",
         show_running |-> "display current-configuration",
         show_interfaces |-> "display ip interface brief",
         show_routes |-> "display ip routing-table",
         show_arp |-> "display arp",
         show_mac |-> "display mac-address",
         show_log |-> "display logbuffer"]
    ]

\* a table with a pagination command for RouterOS as well
PagingEverywhere ==
    [cisco_ios |-> "terminal length 0",
     cisco_ios_xe |-> "terminal length 0",
     generic |-> "terminal length 0",
     huawei |-> "screen-length 0 temporary",
     juniper |-> "set cli screen-length 0",
     mikrotik |-> "terminal length 0"]

\* paging_cmds of _disable_paging
paging_cmds ==
    [cisco_ios |-> "terminal length 0",
     cisco_ios_xe |-> "terminal length 0",
     generic |-> "terminal length 0",
     huawei |-> "screen-length 0 temporary",
     juniper |-> "set cli screen-length 0"]

\* an operation that hands no pagination command to execute_command
NoPaging(device_type) == <<>>

\* _disable_paging: the command it hands to execute_command, if any
DisablePaging(device_type) ==
    IF device_type \in DOMAIN paging_cmds THEN <<paging_cmds[device_type]>>
    ELSE <<>>

LogTypes == {"all", "system", "interface", "routing", "other"}

\* the keys an operation looks up, in program order
Needs(op, log_type) ==
    IF op = "get_router_info" THEN <<"show_version", "show_interfaces">>
    ELSE IF op = "backup_config" THEN <<"show_running">>
    ELSE (IF log_type \in {"all", "system"} THEN <<"show_log">> ELSE <<>>)
         \o (IF log_type \in {"all", "interface"}
             THEN <<"show_interfaces">> ELSE <<>>)
         \o (IF log_type \in {"all", "routing"}
             THEN <<"show_routes", "show_arp">> ELSE <<>>)

\* index of the first key of `keys` that the dialect's map lacks, 0 if none
RECURSIVE FirstMissing(_, _, _)
FirstMissing(map, keys, i) ==
    IF i > Len(keys) THEN 0
    ELSE IF keys[i] \notin DOMAIN map THEN i
    ELSE FirstMissing(map, keys, i + 1)

\* the commands an operation hands to execute_command for a dialect that has
\* a map, up to a lookup that raises KeyError.  backup_config looks its key
\* up before _disable_paging, the others after.
OpCommands(op, device_type, log_type) ==
    LET map == command_templates[device_type]
        keys == Needs(op, log_type)
        missing == FirstMissing(map, keys, 1)
        found == IF missing = 0 THEN Len(keys) ELSE missing - 1
    IN IF op = "backup_config" /\ missing # 0 THEN <<>>
       ELSE DisablePaging(device_type) \o [i \in 1..found |-> map[keys[i]]]

\* whether a lookup of the operation raises KeyError
LookupFails(op, device_type, log_type) ==
    FirstMissing(command_templates[device_type], Needs(op, log_type), 1) # 0

\* what connect transmits once the shell is up: the probe of
\* _detect_device_type and the carriage return of _detect_prompt
DetectProbes == <<"show version", "\r">>

\* execute_command after its reconnect: the failure of the reconnect, or
\* send_command's return.  `probes` is what the reconnect transmitted.
AfterReconnect(linked, outcome, probes, run) ==
    IF outcome # "ok"
    THEN [session |-> linked, tx |-> <<>>,
          result |-> ConnectResult(linked, outcome)]
    ELSE [session |-> run.session, tx |-> probes \o run.tx,
          result |-> run.result]

\* execute_command from `if not router.connected` on
ExecuteOn(s, linked, now, command, outcome, fails) ==
    AfterReconnect(linked, outcome,
                   IF s.connected THEN <<>> ELSE DetectProbes,
                   SendCommand(linked, now, command, fails, FALSE))

\* RouterManager.execute_command on a registered session: the session
\* afterwards, the returned dictionary and what was transmitted.  `good`
\* tells whether the environment lets the call work: if not, the reconnect
\* of a session that is not connected times out, and the collect of a
\* connected one raises.
Execute(s, now, command, good) ==
    IF s.connected
    THEN ExecuteOn(s, s, now, command, "ok",
                   IF good THEN {} ELSE {"collect"})
    ELSE ExecuteOn(s, Connect(s, now, IF good THEN "ok" ELSE "timeout", FALSE),
                   now, command, IF good THEN "ok" ELSE "timeout", {})

\* one execute_command of an operation has returned `one`: the session
\* afterwards, the trace, the transmissions and the latest dictionary
Record(acc, command, one) ==
    [session |-> one.session,
     trace |-> Append(acc.trace, [kind |-> "run", command |-> command,
                                  success |-> one.result.success]),
     tx |-> acc.tx \o one.tx,
     last |-> one.result]

Step(acc, now, command, good) ==
    Record(acc, command, Execute(acc.session, now, command, good))

\* an operation that gives up at the first call that fails
RECURSIVE RunUntilFailure(_, _, _, _, _)
RunUntilFailure(acc, now, cmds, envs, i) ==
    IF i > Len(cmds) \/ (i > 1 /\ ~acc.last.success) THEN acc
    ELSE RunUntilFailure(Step(acc, now, cmds[i], envs[i]), now, cmds, envs,
                         i + 1)

\* the execute_command calls of one operation, one after the other
RECURSIVE RunAll(_, _, _, _, _)
RunAll(acc, now, cmds, envs, i) ==
    IF i > Len(cmds) THEN acc
    ELSE RunAll(Step(acc, now, cmds[i], envs[i]), now, cmds, envs, i + 1)

\* an operation that has made no call yet
Begin(s) == [session |-> s, trace |-> <<>>, tx |-> <<>>, last |-> NoResult]

\* the dictionary an operation returns, or the KeyError that leaves it
OpsResult(success, error) == [success |-> success, error |-> error]

\* backup_config writes the file whatever execute_command returned
WriteAlways(r) == TRUE

\* `if result["success"]` of backup_config
ShouldWrite(r) == r.success

NoOp == [op |-> "none", name |-> "", log_type |-> "", device_type |-> "",
         trace |-> <<>>, tx |-> <<>>, steps |-> <<>>,
         result |-> OpsResult(TRUE, "")]

\* the sessions add_router can register: any device, any dialect that
\* detection or the override can give
OpsSessions ==
    {[Connect(NewConnection(h), 1, "ok", FALSE) EXCEPT !.device_type = d] :
        h \in Hosts, d \in DeviceTypes}

OpsInit ==
    \E s \in OpsSessions : ops = [pc |-> "ready", session |-> s, last |-> NoOp]

\* an operation on a name that is not registered
NotFound(call) == [call EXCEPT !.result = OpsResult(FALSE, "not found")]

\* an operation on a session whose dialect has no command map
Unsupported(call, device_type) ==
    [call EXCEPT !.device_type = device_type,
                 !.result = OpsResult(FALSE, "unsupported")]

\* what the operation returns after its execute_command calls
Returns(op, keyError, write, writeOk, last) ==
    IF keyError THEN OpsResult(FALSE, "KeyError")
    ELSE IF op # "backup_config" THEN OpsResult(TRUE, "")
    ELSE IF ~write THEN OpsResult(FALSE, last.error)
    ELSE IF writeOk THEN OpsResult(TRUE, "")
    ELSE OpsResult(FALSE, "Failed to save backup")

\* the per-call dictionaries an operation puts into the one it returns
\* (version_info and interfaces_info, the entries of logs, results): those
\* of the calls after the `skipped` first ones, as their success flags
Carried(trace, skipped) ==
    [i \in 1..(Len(trace) - skipped) |-> trace[skipped + i].success]

\* the end of an operation on a session whose dialect has a command map:
\* backup_config writes its file, the dictionary is returned
Close(o, call, op, device_type, run, keyError, write, writeOk) ==
    [o EXCEPT
        !.session = run.session,
        !.last = [call EXCEPT
            !.device_type = device_type,
            !.trace = IF write /\ writeOk
                      THEN Append(run.trace, [kind |-> "write", command |-> "",
                                              success |-> TRUE])
                      ELSE run.trace,
            !.tx = run.tx,
            !.steps = IF op = "backup_config" \/ keyError THEN <<>>
                      ELSE Carried(run.trace, Len(DisablePaging(device_type))),
            !.result = Returns(op, keyError, write, writeOk, run.last)]]

\* whether backup_config goes on to write the file
Writes(op, keyError, last) ==
    op = "backup_config" /\ ~keyError /\ ShouldWrite(last)

Finished(o, call, op, device_type, run, keyError, writeOk) ==
    Close(o, call, op, device_type, run, keyError,
          Writes(op, keyError, run.last), writeOk)

\* get_router_info, backup_config and get_logs: `envs` are the environments
\* of the execute_command calls, `writeOk` whether the backup file can be
\* written
Composite(op, name, log_type, envs, writeOk) ==
    /\ ops.pc = "ready"
    /\ ops' =
         IF name # "r1"
         THEN [ops EXCEPT !.last =
                  NotFound([NoOp EXCEPT !.op = op, !.name = name,
                                        !.log_type = log_type])]
         ELSE IF ops.session.device_type \notin DOMAIN command_templates
         THEN [ops EXCEPT !.last =
                  Unsupported([NoOp EXCEPT !.op = op, !.name = name,
                                           !.log_type = log_type],
                              ops.session.device_type)]
         ELSE Finished(ops,
                       [NoOp EXCEPT !.op = op, !.name = name,
                                    !.log_type = log_type],
                       op, ops.session.device_type,
                       RunAll(Begin(ops.session), clock,
                              OpCommands(op, ops.session.device_type, log_type),
                              envs, 1),
                       LookupFails(op, ops.session.device_type, log_type),
                       writeOk)
    /\ UNCHANGED <<mainVars, det, txt, rd, loop, wt, con>>

GetRouterInfo(name, envs) ==
    Composite("get_router_info", name, "", envs, TRUE)

BackupConfig(name, envs, writeOk) ==
    Composite("backup_config", name, "", envs, writeOk)

GetLogs(name, log_type, envs) ==
    Composite("get_logs", name, log_type, envs, TRUE)

\* the command lists of the configuration requests
ConfigLists == {<<"hostname R1">>, <<"interface lo0", "no shutdown">>}

\* send_config_commands: the command that enters configuration mode
ConfigMode(device_type) ==
    IF device_type \in {"cisco_ios", "cisco_ios_xe"} THEN "configure terminal"
    ELSE IF device_type = "mikrotik" THEN ""
    ELSE IF device_type = "huawei" THEN "system-view"
    ELSE "configure terminal"

\* send_config_commands: the command that leaves configuration mode
ExitCmd(device_type) ==
    IF device_type \in {"cisco_ios", "cisco_ios_xe"} THEN "end"
    ELSE IF device_type = "huawei" THEN "quit"
    ELSE "exit"

\* the commands send_config_commands hands to send_command, in order
ConfigSteps(device_type, commands) ==
    IF ConfigMode(device_type) = "" THEN commands
    ELSE <<ConfigMode(device_type)>> \o commands \o <<ExitCmd(device_type)>>

\* one send_command of send_config_commands; an environment that is not
\* good makes the collect raise
SendStep(acc, now, command, good) ==
    Record(acc, command,
           SendCommand(acc.session, now, command,
                       IF good THEN {} ELSE {"collect"}, FALSE))

\* the send_command calls of send_config_commands, one after the other
RECURSIVE RunSends(_, _, _, _, _)
RunSends(acc, now, cmds, envs, i) ==
    IF i > Len(cmds) THEN acc
    ELSE RunSends(SendStep(acc, now, cmds[i], envs[i]), now, cmds, envs, i + 1)

\* the dictionary send_config_commands returns
Pushed(o, call, run) ==
    [o EXCEPT !.session = run.session,
              !.last = [call EXCEPT !.device_type = o.session.device_type,
                                    !.trace = run.trace,
                                    !.tx = run.tx,
                                    !.steps = Carried(run.trace, 0)]]

\* the configuration request: RouterConnection.send_config_commands on the
\* session registered under the name
SendConfigCommands(name, commands, envs) ==
    /\ ops.pc = "ready"
    /\ ops' =
         IF name # "r1"
         THEN [ops EXCEPT !.last =
                  NotFound([NoOp EXCEPT !.op = "send_config_commands",
                                        !.name = name])]
         ELSE Pushed(ops,
                     [NoOp EXCEPT !.op = "send_config_commands", !.name = name],
                     RunSends(Begin(ops.session), clock,
                              ConfigSteps(ops.session.device_type, commands),
                              envs, 1))
    /\ UNCHANGED <<mainVars, det, txt, rd, loop, wt, con>>

\* the environments of the send_command calls of a configuration request
ConfigEnvs(name, commands) ==
    [1..(IF name # "r1" THEN 0
         ELSE Len(ConfigSteps(ops.session.device_type, commands))) -> BOOLEAN]

\* the network and list_routers between two operations: the transport goes
\* down, and list_routers clears the flag of a session whose transport is
\* down
OpsDrop ==
    /\ ops.pc = "ready"
    /\ ops.session.client = "active"
    /\ ops' = [ops EXCEPT !.session.client = "inactive", !.last = NoOp]
    /\ UNCHANGED <<mainVars, det, txt, rd, loop, wt, con>>

OpsList ==
    /\ ops.pc = "ready"
    /\ ops.session.connected
    /\ ops.session.client # "active"
    /\ ops' = [ops EXCEPT !.session = CheckConnectionAlive(@), !.last = NoOp]
    /\ UNCHANGED <<mainVars, det, txt, rd, loop, wt, con>>

\* the environments of the execute_command calls an operation makes
EnvSeqs(op, name, log_type) ==
    LET device_type == ops.session.device_type
        calls == IF name # "r1" \/ device_type \notin DOMAIN command_templates
                 THEN 0
                 ELSE Len(OpCommands(op, device_type, log_type))
    IN [1..calls -> BOOLEAN]

InitOps == MainInit /\ det = DetIdle /\ txt = TxtIdle /\ rd = RdIdle
    /\ loop = LoopIdle /\ OpsInit /\ wt = WtIdle /\ con = ConIdle

NextOps ==
    \/ \E name \in Names :
         \E envs \in EnvSeqs("get_router_info", name, "") :
            GetRouterInfo(name, envs)
    \/ \E name \in Names, writeOk \in BOOLEAN :
         \E envs \in EnvSeqs("backup_config", name, "") :
            BackupConfig(name, envs, writeOk)
    \/ \E name \in Names, log_type \in LogTypes :
         \E envs \in EnvSeqs("get_logs", name, log_type) :
            GetLogs(name, log_type, envs)
    \/ \E name \in Names, commands \in ConfigLists :
         \E envs \in ConfigEnvs(name, commands) :
            SendConfigCommands(name, commands, envs)
    \/ OpsDrop
    \/ OpsList

SpecOps == InitOps /\ [][NextOps]_vars

\* the commands an operation handed to execute_command, in order
Issued(trace) ==
    LET runs == SelectSeq(trace, LAMBDA e : e.kind = "run")
    IN [i \in 1..Len(runs) |-> runs[i].command]

C19_BackupOnlyAfterSuccess ==
    (/\ ops.pc = "ready"
     /\ ops.last.op = "backup_config"
     /\ ops.last.name = "r1")
        => LET d == ops.last.device_type
               trace == ops.last.trace
               mapped == IF d \in DOMAIN command_templates
                         THEN "show_running" \in DOMAIN command_templates[d]
                         ELSE FALSE
           IN /\ ~mapped =>
                    /\ ~ops.last.result.success
                    /\ ops.last.result.error = "unsupported"
                    /\ trace = <<>>
                    /\ ops.last.tx = <<>>
              /\ \A i \in 1..Len(trace) :
                    trace[i].kind = "write" =>
                        /\ i > 1
                        /\ trace[i - 1].kind = "run"
                        /\ trace[i - 1].command = command_templates[d].show_running
                        /\ trace[i - 1].success
              /\ ops.last.result.success =>
                    (Len(trace) > 0 /\ trace[Len(trace)].kind = "write")

\* backup_config has run on a juniper session, for which command_templates
\* has no map
C19_Witness ==
    /\ ops.pc = "ready"
    /\ ops.last.op = "backup_config"
    /\ ops.last.name = "r1"
    /\ ops.last.device_type = "juniper"
    /\ ops.last.result.error = "unsupported"

\* C20: for every dialect a session can have and each of get_router_info,
\* backup_config and get_logs with every log_type, the operation either
\* finds every key it needs in the dialect's map and hands the mapped
\* commands (after the pagination command) to execute_command, or returns
\* the unsupported result and hands over and transmits nothing; no lookup
\* raises KeyError.
C20_MappedOrUnsupported ==
    (/\ ops.pc = "ready"
     /\ ops.last.op \in {"get_router_info", "backup_config", "get_logs"}
     /\ ops.last.name = "r1")
        => LET d == ops.last.device_type
               keys == Needs(ops.last.op, ops.last.log_type)
               issued == Issued(ops.last.trace)
           IN /\ ops.last.result.error # "KeyError"
              /\ IF d \in DOMAIN command_templates
                 THEN /\ \A i \in 1..Len(keys) :
                            keys[i] \in DOMAIN command_templates[d]
                      /\ Len(issued) >= Len(keys)
                      /\ \A i \in 1..Len(keys) :
                            issued[Len(issued) - Len(keys) + i]
                                = command_templates[d][keys[i]]
                      /\ ops.last.result.error # "unsupported"
                 ELSE /\ ~ops.last.result.success
                      /\ ops.last.result.error = "unsupported"
                      /\ issued = <<>>
                      /\ ops.last.tx = <<>>

\* get_logs("all") has run on a mikrotik session
C20_Witness ==
    /\ ops.pc = "ready"
    /\ ops.last.op = "get_logs"
    /\ ops.last.log_type = "all"
    /\ ops.last.device_type = "mikrotik"
    /\ Issued(ops.last.trace) = <<"/log print", "/interface print",
                                  "/ip route print", "/ip arp print">>

(***************************************************************************)
(* Failure results of the registry                                         *)
(***************************************************************************)

\* C22 (as claimed): every failure result carries a timestamp and the
\* identifier of the target it was asked about.
C22_FailuresCarryTimestampAndTarget ==
    ~result.success => (result.timestamp /\ result.target # "")

\* C23: an add_router whose connect fails (authentication, transport or
\* timeout) returns a failure dictionary with a timestamp whose error text
\* tells the three kinds apart, and leaves self.connections exactly as it
\* was: no entry added, an entry of that name untouched.
C23_FailedAddLeavesRegistry ==
    [][LET FailureKind(o) == CASE o = "auth" -> "authentication"
                               [] o = "timeout" -> "timeout"
                               [] OTHER -> "transport"
       IN
       \A name \in Names, device_type \in Overrides,
          outcome \in ConnectOutcomes \ {"ok"} :
          AddRouter(name, device_type, outcome, FALSE) =>
             /\ connections' = connections
             /\ ~result'.success
             /\ result'.timestamp
             /\ result'.error = ConnectError(outcome)
             /\ \A other \in ConnectOutcomes \ {"ok"} :
                   ConnectError(other) = result'.error
                      => FailureKind(other) = FailureKind(outcome)]_vars

\* an add_router has failed on a timeout while a session was registered
C23_Witness ==
    /\ result.op = "connect"
    /\ ~result.success
    /\ result.error = ConnectError("timeout")
    /\ hist.op = "none"
    /\ DOMAIN connections # {}

\* C28 (as claimed): add_router with a device_type argument of the closed
\* set and a successful connect registers a session of that dialect,
\* whatever detection found.
C28_OverrideAlwaysApplied ==
    [][\A name \in Names, device_type \in DeviceTypes,
          detectRaises \in BOOLEAN :
          AddRouter(name, device_type, "ok", detectRaises) =>
             /\ name \in DOMAIN connections'
             /\ connections'[name].device_type = device_type]_vars

(***************************************************************************)
(* The echo-repair resend                                                  *)
(***************************************************************************)

\* C29: within one send_command the command is sent once or twice; it is
\* sent the second time exactly when the first non-blank line of what the
\* collect captured does not contain the stripped command but contains the
\* command without its first character, and what is captured after the
\* resend is appended to what was captured before it.
C29_ResendOnceOnLostFirstChar ==
    txt.pc \in {"collected", "done"} =>
        LET command_clean == Strip(txt.command)
            first == DeviceReply(txt.echo, command_clean, txt.lines,
                                 txt.promptLine)
            first_line == FirstNonBlank(SplitLines(first))
            lost == /\ ~Contains(first_line, command_clean)
                    /\ Contains(first_line, DropFirst(command_clean))
        IN /\ txt.sends \in {1, 2}
           /\ txt.sends = 2 <=> lost
           /\ txt.resent <=> lost
           /\ Len(txt.raw) >= Len(first)
           /\ SubSeq(txt.raw, 1, Len(first)) = first
           /\ ~lost => txt.raw = first

\* the echo of "sh" came back as "h": the command was sent twice and the
\* second capture follows the first
C29_Witness ==
    /\ txt.pc = "collected"
    /\ txt.command = <<"s", "h">>
    /\ txt.echo = "corrupt"
    /\ txt.sends = 2
    /\ Len(txt.raw) > Len(DeviceReply(txt.echo, Strip(txt.command), txt.lines,
                                      txt.promptLine))

(***************************************************************************)
(* Failing steps of the composite operations                               *)
(***************************************************************************)

\* C21: in get_router_info, get_logs and send_config_commands a call that
\* fails does not keep the later ones from being made: every command of the
\* operation is handed over, in order, whichever of them fail, and the
\* returned dictionary reports success and carries one result per step with
\* that step's own success flag.
C21_EveryStepAttempted ==
    (/\ ops.pc = "ready"
     /\ ops.last.name = "r1"
     /\ \/ ops.last.op = "send_config_commands"
        \/ /\ ops.last.op \in {"get_router_info", "get_logs"}
           /\ ops.last.device_type \in DOMAIN command_templates)
        => LET d == ops.last.device_type
               trace == ops.last.trace
               steps == ops.last.steps
               planned == IF ops.last.op = "send_config_commands"
                          THEN Len(trace)
                          ELSE Len(Needs(ops.last.op, ops.last.log_type))
           IN /\ ops.last.result.success
              /\ \A i \in 1..Len(trace) : trace[i].kind = "run"
              /\ IF ops.last.op = "send_config_commands"
                 THEN \E commands \in ConfigLists :
                         Issued(trace) = ConfigSteps(d, commands)
                 ELSE Issued(trace)
                         = OpCommands(ops.last.op, d, ops.last.log_type)
              /\ Len(steps) = planned
              /\ \A i \in 1..planned :
                    steps[i] = trace[Len(trace) - planned + i].success

\* get_router_info whose show_version call failed and whose
\* show_interfaces call was made all the same and succeeded
C21_Witness ==
    /\ ops.pc = "ready"
    /\ ops.last.op = "get_router_info"
    /\ ops.last.device_type = "cisco_ios_xe"
    /\ ops.last.steps = <<FALSE, TRUE>>
    /\ Issued(ops.last.trace)
          = <<"terminal length 0", "show version", "show ip interface brief">>

\* the pagination-disable commands of the dialects
PagingCommands ==
    {"terminal length 0", "screen-length 0 temporary", "set cli screen-length 0"}

\* C35: backup_config and get_logs on a session whose dialect has a command
\* map hand the dialect's pagination-disable command to execute_command
\* first when the dialect has one, and the data commands after it: on the
\* channel no data command precedes it.  When that first call fails every
\* data command is handed over all the same, and what the operation returns
\* is decided by the data calls alone: get_logs reports success with the
\* data calls' results, backup_config goes on to write its file exactly when
\* the show_running call succeeded and reports success when it is written.  On mikrotik no pagination command is
\* handed over or transmitted.
C35_PagingFirstAndNotFatal ==
    (/\ ops.pc = "ready"
     /\ ops.last.op \in {"backup_config", "get_logs"}
     /\ ops.last.name = "r1"
     /\ ops.last.device_type \in DOMAIN command_templates)
        => LET d == ops.last.device_type
               trace == ops.last.trace
               issued == Issued(trace)
               keys == Needs(ops.last.op, ops.last.log_type)
               data == [i \in 1..Len(keys) |-> command_templates[d][keys[i]]]
               paging == IF d \in {"cisco_ios", "cisco_ios_xe", "generic"}
                         THEN <<"terminal length 0">>
                         ELSE IF d = "huawei"
                         THEN <<"screen-length 0 temporary">>
                         ELSE <<>>
               tx == ops.last.tx
           IN /\ issued = paging \o data
              /\ \A i \in 1..Len(tx) :
                    tx[i] \in PagingCommands =>
                        /\ d # "mikrotik"
                        /\ tx[i] = paging[1]
                        /\ \A j \in 1..(i - 1) :
                              \A k \in 1..Len(data) : tx[j] # data[k]
              /\ IF ops.last.op = "get_logs"
                 THEN /\ ops.last.result.success
                      /\ ops.last.steps =
                            [i \in 1..Len(data) |->
                                trace[Len(paging) + i].success]
                 ELSE LET written == \E i \in 1..Len(trace) :
                                         trace[i].kind = "write"
                      IN /\ ops.last.result.success = written
                         /\ written => trace[Len(paging) + 1].success
                         /\ (trace[Len(paging) + 1].success /\ ~written)
                               => ops.last.result.error = "Failed to save backup"

\* backup_config on a huawei session whose pagination call failed: the
\* show_running call was made, succeeded, and the file was written
C35_Witness ==
    /\ ops.pc = "ready"
    /\ ops.last.op = "backup_config"
    /\ ops.last.device_type = "huawei"
    /\ Len(ops.last.trace) = 3
    /\ ~ops.last.trace[1].success
    /\ ops.last.trace[2].success
    /\ ops.last.trace[3].kind = "write"
    /\ ops.last.result.success

\* get_logs of every category on a mikrotik session: four commands, none of
\* them a pagination command
C35_WitnessNoPaging ==
    /\ ops.pc = "ready"
    /\ ops.last.op = "get_logs"
    /\ ops.last.device_type = "mikrotik"
    /\ Len(ops.last.tx) = 4

\* C39: a send_command whose channel operations raised nothing returns
\* success with the cleaned output, whatever was captured: for a capture of
\* zero bytes the output is empty, and for a capture without a prompt line
\* the prompt cache stays as it was.
C39_SuccessWhateverCaptured ==
    txt.pc = "done" =>
        /\ txt.success
        /\ txt.output = Clean(txt.raw, Strip(txt.command), NoPrompt).output
        /\ txt.raw = <<>> => (txt.output = <<>> /\ txt.echoAt = 0)
        /\ (\A l \in {SplitLines(txt.raw)[i] : i \in 1..Len(SplitLines(txt.raw))} :
                ~LooksLikePrompt(l))
              => txt.prompt = NoPrompt

\* the device printed one line and nothing else: no line was taken for the
\* echo, no prompt was learned, and the command succeeded with that line
C39_Witness ==
    /\ txt.pc = "done"
    /\ txt.echo = "bare"
    /\ txt.command = <<"s", " ", "h">>
    /\ txt.raw = <<"h">> \o CRLF
    /\ txt.echoAt = 0
    /\ txt.prompt = NoPrompt
    /\ txt.output = <<"h">>
    /\ txt.success

\* the device printed nothing: the command succeeded with empty output
C39_WitnessSilent ==
    /\ txt.pc = "done"
    /\ txt.echo = "silent"
    /\ txt.raw = <<>>
    /\ txt.output = <<>>
    /\ txt.success

(***************************************************************************)
(* The polling loops of one blocking call: the _read_until_quiet calls of  *)
(* send_command (keepalive drain, flush, collect, collect after the        *)
(* resend), the read loop of _detect_device_type, and the recv with which  *)
(* connect clears the banner.  The device decides at every poll whether    *)
(* bytes are ready: never, now and then, or always.  Time is counted in    *)
(* sub-ticks from the start of the call under way.                         *)
(***************************************************************************)

MaxWaitTicks == 170      \* sub-ticks one loop is followed for

KeepaliveQuiet == 4 * PollTicks    \* quiet_time=0.2
KeepaliveTotal == 20 * PollTicks   \* max_total=1.0
RetryQuiet == 10 * PollTicks       \* quiet_time=0.5
RetryTotal == 40 * PollTicks       \* max_total=2.0
max_attempts == 10

WaitCalls == {"keepalive", "flush", "collect", "retry"}

\* the wait_time arguments of send_command, in seconds: the default and a
\* longer one
WaitHints == {2, 4}

\* one second in sub-ticks: twenty sleeps of line 236
TicksPerSecond == 20 * PollTicks

\* a collect that waits no longer than it was asked to
CollectAsAsked(wait_time) == wait_time * TicksPerSecond

\* max(3.0, wait_time) of line 275
CollectMaxTotal(wait_time) ==
    IF wait_time * TicksPerSecond > CollectTotal
    THEN wait_time * TicksPerSecond
    ELSE CollectTotal

\* quiet_time and max_total of the calls of lines 265, 270, 275 and 281
WaitParams(call, wait_time) ==
    CASE call = "keepalive" -> [quiet_time |-> KeepaliveQuiet,
                                max_total |-> KeepaliveTotal]
      [] call = "flush"     -> [quiet_time |-> FlushQuiet,
                                max_total |-> FlushTotal]
      [] call = "collect"   -> [quiet_time |-> CollectQuiet,
                                max_total |-> CollectMaxTotal(wait_time)]
      [] OTHER              -> [quiet_time |-> RetryQuiet,
                                max_total |-> RetryTotal]

\* the first lines of _read_until_quiet: start = last = time.time()
BeginWait(w, call) == [w EXCEPT !.pc = "poll", !.call = call,
                                !.now = 0, !.last = 0]

NoWait == [op |-> "none", pc |-> "poll", call |-> "", now |-> 0, last |-> 0,
           wait_time |-> 2, attempts |-> 0, failed |-> FALSE, banner |-> "",
           ended |-> [c \in WaitCalls |-> ""]]

\* what the device does with its banner once the shell is open: it is in
\* the channel's buffer when the sleep of line 53 is over, it comes later,
\* or the device prints none
Banners == {"buffered", "later", "never"}

\* a send_command at its first wait (the keepalive drain if the session was
\* idle, the flush otherwise), a detection at line 123, or a connect at the
\* recv of line 56
WtInit ==
    wt \in {BeginWait([NoWait EXCEPT !.op = "send_command",
                                     !.wait_time = wait_time], call) :
               call \in {"keepalive", "flush"}, wait_time \in WaitHints}
           \cup {BeginWait([NoWait EXCEPT !.op = "detect"], "detect")}
           \cup {[NoWait EXCEPT !.op = "connect", !.pc = "recv",
                                !.banner = b] : b \in Banners}

\* one pass of the loop of _read_until_quiet, lines 227-236
WaitPoll ==
    /\ wt.op = "send_command"
    /\ wt.pc = "poll"
    /\ wt.now <= MaxWaitTicks
    /\ \E ready \in BOOLEAN, over \in 0..MaxOvershoot :
         LET last == IF ready THEN wt.now ELSE wt.last
             p == WaitParams(wt.call, wt.wait_time)
         IN wt' = IF QuietReached(wt.now, last, p.quiet_time)
                  THEN [wt EXCEPT !.pc = "ended", !.last = last,
                                  !.ended[wt.call] = "quiet"]
                  ELSE IF DeadlineReached(wt.now, 0, p.max_total)
                  THEN [wt EXCEPT !.pc = "ended", !.last = last,
                                  !.ended[wt.call] = "deadline"]
                  ELSE [wt EXCEPT !.last = last,
                                  !.now = wt.now + PollTicks + over]
    /\ UNCHANGED <<mainVars, det, txt, rd, loop, ops, con>>

\* send_command goes on after a wait: from the keepalive drain to the
\* flush, from the flush to the collect, from the collect to the resend and
\* its collect if the echo-repair condition holds, and to its return
Proceed ==
    /\ wt.op = "send_command"
    /\ wt.pc = "ended"
    /\ \E retry \in BOOLEAN :
         wt' = CASE wt.call = "keepalive" -> BeginWait(wt, "flush")
                 [] wt.call = "flush" -> BeginWait(wt, "collect")
                 [] wt.call = "collect" /\ retry -> BeginWait(wt, "retry")
                 [] OTHER -> [wt EXCEPT !.pc = "returned"]
    /\ UNCHANGED <<mainVars, det, txt, rd, loop, ops, con>>

\* one pass of the read loop of _detect_device_type, lines 123-129
DetectPoll ==
    /\ wt.op = "detect"
    /\ wt.pc = "poll"
    /\ \E ready \in BOOLEAN :
         LET attempts == IF ready THEN 0 ELSE wt.attempts + 1
         IN wt' = [wt EXCEPT !.attempts = attempts,
                             !.pc = IF attempts < max_attempts THEN "poll"
                                    ELSE "returned"]
    /\ UNCHANGED <<mainVars, det, txt, rd, loop, ops, con>>

\* the banner reaches the channel while connect is in its recv
BannerArrives ==
    /\ wt.op = "connect"
    /\ wt.pc = "recv"
    /\ wt.banner = "later"
    /\ wt' = [wt EXCEPT !.banner = "buffered", !.now = wt.now + PollTicks]
    /\ UNCHANGED <<mainVars, det, txt, rd, loop, ops, con>>

\* self.shell.recv(4096) of line 56, on a channel without a timeout: it
\* returns once bytes are buffered and waits while there are none; connect
\* then goes on to _detect_device_type
ClearInitialOutput ==
    /\ wt.op = "connect"
    /\ wt.pc = "recv"
    /\ wt.banner = "buffered"
    /\ wt' = [wt EXCEPT !.pc = "detecting", !.banner = ""]
    /\ UNCHANGED <<mainVars, det, txt, rd, loop, ops, con>>

\* a channel operation raises: the except branch returns
ChannelRaises ==
    /\ wt.pc = "poll"
    /\ wt' = [wt EXCEPT !.pc = "returned", !.failed = TRUE]
    /\ UNCHANGED <<mainVars, det, txt, rd, loop, ops, con>>

InitWaits == MainInit /\ det = DetIdle /\ txt = TxtIdle /\ rd = RdIdle
    /\ loop = LoopIdle /\ ops = OpsIdle /\ WtInit /\ con = ConIdle
NextWaits ==
    \/ WaitPoll \/ Proceed \/ DetectPoll \/ ChannelRaises
    \/ BannerArrives \/ ClearInitialOutput
\* the process keeps running: a step that can be taken is taken
SpecWaits == InitWaits /\ [][NextWaits]_vars /\ WF_vars(NextWaits)

\* C24: every send_command returns, whatever the device does at each poll
\* (no bytes, bytes now and then, bytes at every poll): each of its waits --
\* keepalive drain, flush, collect, collect after the resend -- is over at
\* the first poll at or after its own max_total.
C24_EveryWaitEnds ==
    /\ [](wt.op = "send_command" /\ wt.pc \in {"poll", "ended"} =>
             wt.now <= WaitParams(wt.call, wt.wait_time).max_total
                         + PollSpan - 1)
    /\ (wt.op = "send_command" ~> wt.pc = "returned")

\* a send_command has returned after the device had bytes ready at every
\* poll of the collect and of the collect after the resend
C24_Witness ==
    /\ wt.op = "send_command"
    /\ wt.pc = "returned"
    /\ ~wt.failed
    /\ wt.ended["keepalive"] # ""
    /\ wt.ended["collect"] = "deadline"
    /\ wt.ended["retry"] = "deadline"

\* C37: the collect of send_command ends on its deadline test at the first
\* poll that is max(3, wait_time) seconds or more after its start, for a
\* wait_time below three seconds as for one above; until then only the quiet
\* test ends it.
C37_CollectDeadlineFloor ==
    (wt.op = "send_command" /\ wt.call = "collect") =>
        LET floor == 3 * TicksPerSecond
            asked == wt.wait_time * TicksPerSecond
            deadline == IF asked > floor THEN asked ELSE floor
        IN /\ deadline >= floor
           /\ deadline >= asked
           /\ deadline \in {floor, asked}
           /\ wt.pc = "poll" => wt.now <= deadline + PollSpan - 1
           /\ (wt.pc = "ended" /\ wt.ended["collect"] = "deadline")
                 => (wt.now >= deadline /\ wt.now <= deadline + PollSpan - 1)
           /\ (wt.pc = "ended" /\ wt.now < deadline)
                 => wt.ended["collect"] = "quiet"

\* a collect asked to wait two seconds has ended on its deadline three
\* seconds after its start
C37_Witness ==
    /\ wt.op = "send_command"
    /\ wt.call = "collect"
    /\ wt.wait_time = 2
    /\ wt.pc = "ended"
    /\ wt.ended["collect"] = "deadline"
    /\ wt.now = 3 * TicksPerSecond

\* C31 (as claimed): after the sleep that follows invoke_shell, connect
\* drops what is buffered without waiting, and goes on to detection also
\* when the device has sent no banner byte.
C31_ConnectReachesDetection ==
    wt.op = "connect" ~> wt.pc = "detecting"

\* C30 (as claimed): detection returns for every device behaviour, a device
\* that never stops producing output included.
C30_DetectReturns == wt.op = "detect" ~> wt.pc = "returned"

(***************************************************************************)
(* The console bridge: websocket_ssh_console of main_router.py.  One       *)
(* operator is attached to the shell of one registered session; operator   *)
(* messages pass a token bucket before they are written to the shell.      *)
(***************************************************************************)

MaxMessages == 4         \* operator messages one bridge receives

bucket_capacity == 4096
refill_rate == 1024

\* operator messages: a short text, followed by `pad` more characters that
\* are not white space
Msgs ==
    {[body |-> b, pad |-> 0] :
        b \in {<<"/", "e", "x", "i", "t">>, <<"e", "x", "i", "t", "\r">>}}
    \cup {[body |-> <<"l", "s">>, pad |-> n] : n \in {0, 1998, 1999, 4094, 4095}}

\* len(msg)
MsgLen(m) == Len(m.body) + m.pad

\* msg.strip() in {"/exit", "exit"}
IsDetach(m) ==
    m.pad = 0 /\ Strip(m.body) \in {<<"/", "e", "x", "i", "t">>,
                                    <<"e", "x", "i", "t">>}

\* a bucket that is charged for an input it rejects
TakeTokensCharging(available, n, elapsed) ==
    LET filled == IF elapsed > 0
                  THEN IF available + elapsed * refill_rate > bucket_capacity
                       THEN bucket_capacity
                       ELSE available + elapsed * refill_rate
                  ELSE available
    IN IF n <= filled THEN [ok |-> TRUE, available |-> filled - n]
       ELSE [ok |-> FALSE, available |-> 0]

\* take_tokens: the bucket after `elapsed` seconds, and whether n tokens
\* were taken from it
TakeTokens(available, n, elapsed) ==
    LET filled == IF elapsed > 0
                  THEN IF available + elapsed * refill_rate > bucket_capacity
                       THEN bucket_capacity
                       ELSE available + elapsed * refill_rate
                  ELSE available
    IN IF n <= filled THEN [ok |-> TRUE, available |-> filled - n]
       ELSE [ok |-> FALSE, available |-> filled]

\* a bridge that closes the session when it ends
EndBridgeClosing(c) ==
    [c EXCEPT !.pc = "detached", !.router = Disconnect(c.router)]

\* the finally block of lines 771-780: the reader task is stopped and the
\* websocket closed; the session is not referred to
EndBridge(c) == [c EXCEPT !.pc = "detached"]

NoMsg == [detach |-> FALSE, taken |-> FALSE]

\* a websocket request for a name: the name is registered or not, its
\* session connected or disconnected, its prompt learned or not
ConInit ==
    \E h \in Hosts, up \in BOOLEAN, registered \in BOOLEAN,
       prompt \in {NoPrompt} \cup Prompts :
       LET router == IF up THEN Connect(NewConnection(h), 1, "ok", FALSE)
                     ELSE Disconnect(Connect(NewConnection(h), 1, "ok", FALSE))
       IN con = [pc |-> "new", registered |-> registered, router |-> router,
                 prompt |-> prompt, timeout |-> None,
                 before |-> [router |-> router, prompt |-> prompt],
                 available |-> 0, received |-> 0, offered |-> 0, sent |-> 0,
                 warned |-> 0, refilled |-> FALSE, last |-> NoMsg]

\* lines 677-714: the request is refused unless the name is registered and
\* its session connected; the shell is made non-blocking, the bucket is full
Attach ==
    /\ con.pc = "new"
    /\ con' = IF ~con.registered \/ ~con.router.connected \/ ~con.router.shell
              THEN [con EXCEPT !.pc = "refused"]
              ELSE [con EXCEPT !.pc = "attached", !.timeout = 0,
                               !.available = bucket_capacity]
    /\ UNCHANGED <<mainVars, det, txt, rd, loop, ops, wt>>

\* one pass of the loop of lines 746-763 on a message that arrives `elapsed`
\* seconds after the bucket was last refilled
Receive(m, elapsed) ==
    /\ con.pc = "attached"
    /\ con.received < MaxMessages
    /\ LET t == TakeTokens(con.available, MsgLen(m), elapsed)
           seen == [con EXCEPT !.available = t.available,
                               !.received = con.received + 1,
                               !.offered = con.offered + MsgLen(m),
                               !.refilled = con.refilled \/ elapsed > 0,
                               !.last = [detach |-> IsDetach(m),
                                         taken |-> t.ok]]
       IN con' = IF ~t.ok
                 THEN [seen EXCEPT !.warned = con.warned + 1]
                 ELSE IF IsDetach(m)
                 THEN EndBridge(seen)
                 ELSE [seen EXCEPT
                          !.sent = con.sent + (IF MsgLen(m) > 2000 THEN 2000
                                               ELSE MsgLen(m))]
    /\ UNCHANGED <<mainVars, det, txt, rd, loop, ops, wt>>

\* WebSocketDisconnect: the operator's connection ends
OperatorDisconnect ==
    /\ con.pc = "attached"
    /\ con' = EndBridge([con EXCEPT !.last = NoMsg])
    /\ UNCHANGED <<mainVars, det, txt, rd, loop, ops, wt>>

InitConsole == MainInit /\ det = DetIdle /\ txt = TxtIdle /\ rd = RdIdle
    /\ loop = LoopIdle /\ ops = OpsIdle /\ wt = WtIdle /\ ConInit
NextConsole ==
    \/ Attach
    \/ \E m \in Msgs, elapsed \in {0, 1} : Receive(m, elapsed)
    \/ OperatorDisconnect
SpecConsole == InitConsole /\ [][NextConsole]_vars

\* C25 (as claimed): of operator input of more than bucket_capacity bytes
\* that arrives with no refill in between, the first bucket_capacity bytes
\* are written to the shell and the rest is dropped with a warning.
C25_BurstForwardsCapacity ==
    (/\ con.pc \in {"attached", "detached"}
     /\ ~con.refilled
     /\ con.offered > bucket_capacity)
        => (con.sent = bucket_capacity /\ con.warned > 0)

\* C26: when the bridge has ended, by a detach command or by the operator's
\* disconnect, the session is still registered and its transport, shell,
\* connected flag, dialect and learned prompt are what they were before the
\* bridge, so that send_command on it gets past its connection checks.
C26_DetachLeavesSession ==
    con.pc = "detached" =>
        /\ con.registered
        /\ con.router = con.before.router
        /\ con.prompt = con.before.prompt
        /\ con.router.connected /\ con.router.shell
        /\ con.router.client = "active"
        /\ SendCommand(con.router, clock, "show version", {}, FALSE).result.success

\* a bridge that forwarded operator input has been ended by "/exit"
C26_Witness ==
    /\ con.pc = "detached"
    /\ con.sent > 0
    /\ con.last.detach

\* C27 (as claimed): every detach command received from the operator ends
\* the bridge, the token bucket being empty or not.
C27_DetachAlwaysEnds == con.last.detach => con.pc = "detached"

\* the bucket of take_tokens after `elapsed` seconds without a message
Refilled(available, elapsed) ==
    IF available + elapsed * refill_rate > bucket_capacity
    THEN bucket_capacity
    ELSE available + elapsed * refill_rate

\* C40: the token count stays within 0..bucket_capacity; a message of n
\* characters is written to the shell only if n is at most the tokens
\* available after the refill, and an accepted message takes exactly n
\* tokens; a rejected message takes none, writes nothing to the shell and is
\* answered with one rate-limit warning.
C40_BucketWithinBounds ==
    [][\A m \in Msgs, elapsed \in {0, 1} :
        Receive(m, elapsed) =>
            LET n == MsgLen(m)
                tokens == Refilled(con.available, elapsed)
            IN /\ con.available \in 0..bucket_capacity
               /\ con'.available \in 0..bucket_capacity
               /\ con'.sent > con.sent => n <= tokens
               /\ IF n <= tokens
                  THEN /\ con'.available = tokens - n
                       /\ con'.warned = con.warned
                  ELSE /\ con'.available = tokens
                       /\ con'.sent = con.sent
                       /\ con'.warned = con.warned + 1
                       /\ con'.pc = "attached"]_vars

\* a message was rejected by a bucket that an earlier message had drawn on
\* and a refill had topped up
C40_Witness ==
    /\ con.pc = "attached"
    /\ con.warned > 0
    /\ con.sent > 0
    /\ con.refilled
    /\ con.available \in 1..(bucket_capacity - 1)

====
